---- MODULE Spec2Model ----
(***************************************************************************)
(* A model of the grid-world simulation code of the ASCII RPG tutorial:    *)
(*   - the dungeon crawler of lesson 15 (CreateWorld, CanWalk, main loop), *)
(*   - the collision system of lesson 13 (CheckAllCollisions, GetEntityAt),*)
(*   - the enemy AI of lesson 14 (perception, chase, breadcrumb field),    *)
(*   - the damage rule of lesson 16a (ApplyDamage).                        *)
(* Each program has its own variables and its own specification; a         *)
(* specification keeps the variables of the other programs at Off.         *)
(***************************************************************************)
EXTENDS Integers, Sequences, FiniteSets, TLC

VARIABLES
    world,        \* lesson 15: World {tiles, width, height}
    entities,     \* lesson 15: the master list player -> enemy -> enemy
    attempt,      \* lesson 15: history, what each entity tried in the last frame
                  \* in which an enemy's timer fired (<< >> after any other frame)
    map,          \* lesson 13: LayeredMap {collision, width, height}
    entityList,   \* lesson 13: the linked list of Entity, in list order
    result,       \* lesson 13: the CollisionResult of the last call
    call,         \* lesson 13: the arguments of the last call
    lastOp,       \* lesson 13: which operation ran last
    sg,           \* lesson 13: SpatialGrid {grid, gridWidth, gridHeight}
    tiles,        \* lesson 14: char* map with mapWidth and mapHeight
    enemy,        \* lesson 14: the Enemy a function is called for
    targetXY,     \* lesson 14: targetX, targetY of the call
    seen,         \* lesson 14: the results of the CanSeePosition calls so far
    distanceMap,  \* lesson 14: the distanceMap of the last MoveWithBreadcrumbs
    calledAt,     \* lesson 14: history, enemy->x, enemy->y on entry to the last
                  \* MoveWithBreadcrumbs
    player,       \* lesson 14: Player of the demo's main
    enemies,      \* lesson 14: the linked list of Enemy of main, in list order
    alerts,       \* lesson 14: AlertSystem of main
    frame,        \* lesson 14: the number of passes of main's loop so far
    lastCall,     \* lesson 14: history, the last operation on the enemies: which
                  \* one, for which enemy, the list and the player it was given
    combat        \* lesson 16a: a combatant's hp, and history, the hp and the
                  \* dmg the last ApplyDamage was given

dungeonVars == <<world, entities, attempt>>
collisionVars == <<map, entityList, result, call, lastOp, sg>>
callVars == <<enemy, targetXY, seen, distanceMap, calledAt>>
demoVars == <<player, enemies, alerts, frame, lastCall>>
aiVars == <<tiles, enemy, targetXY, seen, distanceMap, calledAt, player,
           enemies, alerts, frame, lastCall>>
vars == <<world, entities, attempt, map, entityList, result, call, lastOp, sg,
          tiles, enemy, targetXY, seen, distanceMap, calledAt, player, enemies,
          alerts, frame, lastCall, combat>>

Off == "off"

DungeonOff == world = Off /\ entities = Off /\ attempt = Off
CollisionOff ==
    /\ map = Off /\ entityList = Off /\ result = Off
    /\ call = Off /\ lastOp = Off /\ sg = Off

CallOff ==
    /\ enemy = Off /\ targetXY = Off /\ seen = Off
    /\ distanceMap = Off /\ calledAt = Off
DemoOff ==
    /\ player = Off /\ enemies = Off /\ alerts = Off
    /\ frame = Off /\ lastCall = Off
AIOff == tiles = Off /\ CallOff /\ DemoOff
CombatOff == combat = Off

Abs(n) == IF n < 0 THEN -n ELSE n
Min(a, b) == IF a < b THEN a ELSE b
Max(a, b) == IF a > b THEN a ELSE b

(***************************************************************************)
(* Lesson 15, world.c                                                      *)
(***************************************************************************)

\* Scaled-down arguments of CreateWorld(50, 40, 10, ...) and of the room
\* size draw 5 + rand() % 6; the spawn offset of main (pX + 5, pY + 5).
DungeonWidth == 7
DungeonHeight == 7
NumRooms == 3
RoomMin == 2
RoomSpan == 2
SpawnOffset == 2
\* The random streams (srand seeds) Init draws from.
Seeds == {0, 43}

\* if (current->moveTimer > 30)
MoveDelay == 30

\* rand(): the k-th draw (k = 0, 1, ...) of the stream seeded with s.  The
\* C library's generator is implementation-defined; this one is a small
\* linear congruential generator, and Init ranges over the streams of Seeds.
RECURSIVE Rand(_, _)
Rand(s, k) == IF k = 0 THEN (s * 75 + 74) % 65537
              ELSE (Rand(s, k - 1) * 75 + 74) % 65537

\* static void CreateRoom(World* world, int x, int y, int w, int h)
CreateRoom(w0, x, y, w, h) ==
    [w0 EXCEPT !.tiles =
        [idx \in DOMAIN w0.tiles |->
            LET j == idx % w0.width
                i == idx \div w0.width
            IN  IF /\ i >= y /\ i < y + h /\ j >= x /\ j < x + w
                   /\ j > 0 /\ j < w0.width - 1 /\ i > 0 /\ i < w0.height - 1
                THEN "." ELSE w0.tiles[idx]]]

\* static void CreateHCorridor(World* world, int x1, int x2, int y)
CreateHCorridor(w0, x1, x2, y) ==
    [w0 EXCEPT !.tiles =
        [idx \in DOMAIN w0.tiles |->
            IF \E x \in Min(x1, x2)..Max(x1, x2) : idx = y * w0.width + x
            THEN "." ELSE w0.tiles[idx]]]

\* static void CreateVCorridor(World* world, int y1, int y2, int x)
CreateVCorridor(w0, y1, y2, x) ==
    [w0 EXCEPT !.tiles =
        [idx \in DOMAIN w0.tiles |->
            IF \E y \in Min(y1, y2)..Max(y1, y2) : idx = y * w0.width + x
            THEN "." ELSE w0.tiles[idx]]]

\* The room loop of CreateWorld: room i of the stream s, whose next draw is
\* the k-th.  Returns the world and the player's start.
RECURSIVE RoomLoop(_, _, _, _, _, _, _)
RoomLoop(w0, s, i, k, lastX, lastY, start) ==
    IF i >= NumRooms
    THEN [world |-> [w0 EXCEPT !.tiles[lastY * w0.width + lastX] = ">"],
          startX |-> start[1], startY |-> start[2]]
    ELSE LET w == RoomMin + (Rand(s, k) % RoomSpan)
             h == RoomMin + (Rand(s, k + 1) % RoomSpan)
             x == 1 + (Rand(s, k + 2) % (w0.width - w - 2))
             y == 1 + (Rand(s, k + 3) % (w0.height - h - 2))
             w1 == CreateRoom(w0, x, y, w, h)
             centerX == x + (w \div 2)
             centerY == y + (h \div 2)
         IN  IF i = 0
             THEN RoomLoop(w1, s, i + 1, k + 4, centerX, centerY,
                           <<centerX, centerY>>)
             ELSE LET w2 == IF Rand(s, k + 4) % 2 = 0
                            THEN CreateVCorridor(
                                   CreateHCorridor(w1, lastX, centerX, lastY),
                                   lastY, centerY, centerX)
                            ELSE CreateHCorridor(
                                   CreateVCorridor(w1, lastY, centerY, lastX),
                                   lastX, centerX, centerY)
                  IN  RoomLoop(w2, s, i + 1, k + 5, centerX, centerY, start)

\* World* CreateWorld(int width, int height, int numRooms, int* pX, int* pY)
CreateWorld(width, height, s) ==
    RoomLoop([tiles |-> [idx \in 0..(width * height - 1) |-> "#"],
              width |-> width, height |-> height],
             s, 0, 0, 0, 0, <<0, 0>>)

\* static Entity* createEntity(...): moveTimer = 0
createEntity(x, y, type) == [x |-> x, y |-> y, type |-> type, moveTimer |-> 0]

\* CanWalk without its walk over the entity list.
CanWalkTilesOnly(w0, allEntities, x, y) ==
    IF x < 0 \/ x >= w0.width \/ y < 0 \/ y >= w0.height
    THEN FALSE
    ELSE w0.tiles[y * w0.width + x] # "#"

\* int CanWalk(World* world, Entity* allEntities, int x, int y)
CanWalk(w0, allEntities, x, y) ==
    IF x < 0 \/ x >= w0.width \/ y < 0 \/ y >= w0.height
    THEN FALSE
    ELSE IF w0.tiles[y * w0.width + x] = "#"
    THEN FALSE
    ELSE ~ \E n \in DOMAIN allEntities :
              allEntities[n].x = x /\ allEntities[n].y = y

\* main, before the loop: the world, the player at the first room's centre
\* and the two enemies, linked player -> enemy -> enemy.
DungeonInit ==
    \E s \in Seeds :
        LET made == CreateWorld(DungeonWidth, DungeonHeight, s)
            pX == made.startX
            pY == made.startY
        IN  /\ world = made.world
            /\ entities = << createEntity(pX, pY, "ET_PLAYER"),
                             createEntity(pX + SpawnOffset, pY + SpawnOffset, "ET_ENEMY"),
                             createEntity(pX - SpawnOffset, pY - SpawnOffset, "ET_ENEMY") >>
            /\ attempt = << >>
            /\ CollisionOff
            /\ AIOff
            /\ CombatOff

\* The player's part of one frame: the move is committed when CanWalk allows.
PlayerMovement(ents, dx, dy) ==
    IF (dx # 0 \/ dy # 0) /\ CanWalk(world, ents, ents[1].x + dx, ents[1].y + dy)
    THEN [ents EXCEPT ![1].x = @ + dx, ![1].y = @ + dy]
    ELSE ents

\* int dir = rand() % 4; the step of each direction.
DirX(dir) == IF dir = 0 THEN 1 ELSE IF dir = 1 THEN -1 ELSE 0
DirY(dir) == IF dir = 0 \/ dir = 1 THEN 0 ELSE IF dir = 2 THEN 1 ELSE -1

\* The body of the enemy loop for list entry n, given the list as the
\* earlier entries of this frame left it.
EnemyMovement(ents, n, dir) ==
    LET timed == [ents EXCEPT ![n].moveTimer = @ + 1]
    IN  IF timed[n].moveTimer > MoveDelay
        THEN LET ex == DirX(dir)
                 ey == DirY(dir)
                 moved == IF CanWalk(world, timed, timed[n].x + ex, timed[n].y + ey)
                          THEN [timed EXCEPT ![n].x = @ + ex, ![n].y = @ + ey]
                          ELSE timed
             IN  [moved EXCEPT ![n].moveTimer = 0]
        ELSE timed

\* What entry n wanted in this frame: its destination, or no move at all.
Wanted(ents, n, dx, dy, dirs) ==
    IF n = 1
    THEN IF dx # 0 \/ dy # 0
         THEN [want |-> TRUE, x |-> ents[1].x + dx, y |-> ents[1].y + dy]
         ELSE [want |-> FALSE, x |-> ents[1].x, y |-> ents[1].y]
    ELSE IF ents[n].moveTimer + 1 > MoveDelay
         THEN [want |-> TRUE, x |-> ents[n].x + DirX(dirs[n]),
               y |-> ents[n].y + DirY(dirs[n])]
         ELSE [want |-> FALSE, x |-> ents[n].x, y |-> ents[n].y]

\* One iteration of main's while loop: player movement, then every enemy
\* in list order, each seeing the moves committed before it.
DungeonFrame(dx, dy, dir2, dir3) ==
    LET dirs == <<0, dir2, dir3>>
        e1 == PlayerMovement(entities, dx, dy)
        e2 == EnemyMovement(e1, 2, dir2)
        e3 == EnemyMovement(e2, 3, dir3)
    IN  /\ entities' = e3
        /\ attempt' = IF \E n \in 2..3 : entities[n].moveTimer + 1 > MoveDelay
                       THEN [n \in 1..3 |->
                               [from |-> [x |-> entities[n].x, y |-> entities[n].y],
                                dest |-> Wanted(entities, n, dx, dy, dirs)]]
                       ELSE << >>
        /\ UNCHANGED world

\* rand() % 4 is drawn only in a frame in which the enemy's timer fires.
DirDraws(n) == IF entities[n].moveTimer + 1 > MoveDelay THEN 0..3 ELSE {0}

DungeonNext ==
    \E dx \in {-1, 0, 1}, dy \in {-1, 0, 1} :
        \E dir2 \in DirDraws(2), dir3 \in DirDraws(3) :
            DungeonFrame(dx, dy, dir2, dir3) /\ UNCHANGED <<collisionVars, aiVars, combat>>

SpecDungeon == DungeonInit /\ [][DungeonNext]_vars

(***************************************************************************)
(* Lesson 15: properties                                                   *)
(***************************************************************************)

\* The collision classification of a dungeon position: the map edge and '#'
\* are solid.
DungeonSolidAt(x, y) ==
    \/ x < 0 \/ x >= world.width \/ y < 0 \/ y >= world.height
    \/ world.tiles[y * world.width + x] = "#"

\* At least one frame of the main loop has run.
FramesRun == attempt # << >> \/ entities[2].moveTimer > 0

\* C1: after every sequence of frames (moves resolved by CanWalk and then
\* committed), no entity stands on a solid tile.
C1_NeverOnSolid ==
    FramesRun => \A n \in 1..3 : ~ DungeonSolidAt(entities[n].x, entities[n].y)

\* The entities that, in the recorded frame, wanted to move to (x, y).
Contenders(x, y) ==
    {n \in 1..3 : attempt[n].dest.want /\ attempt[n].dest.x = x /\ attempt[n].dest.y = y}

\* (x, y) was a free tile when the recorded frame began: walkable and with
\* no entity on it.
WasFree(x, y) ==
    /\ ~ DungeonSolidAt(x, y)
    /\ \A n \in 1..3 : ~ (attempt[n].from.x = x /\ attempt[n].from.y = y)

FirstOf(S) == CHOOSE n \in S : \A m \in S : n <= m

Contended(x, y) == WasFree(x, y) /\ Cardinality(Contenders(x, y)) >= 2

\* C3: when several entities want the same free tile in one frame, the one
\* earliest in list order gets it and every other one stays where it was.
C3_EarlierWins ==
    attempt # << >> =>
        \A x \in 0..(world.width - 1), y \in 0..(world.height - 1) :
            Contended(x, y) =>
                LET S == Contenders(x, y)
                    first == FirstOf(S)
                IN  /\ entities[first].x = x /\ entities[first].y = y
                    /\ \A n \in S \ {first} :
                          /\ entities[n].x = attempt[n].from.x
                          /\ entities[n].y = attempt[n].from.y

\* C3 witness: a frame in which two entities contended for a free tile, and
\* one in which the two enemies did.
C3_Witness ==
    /\ attempt # << >>
    /\ \E x \in 0..(world.width - 1), y \in 0..(world.height - 1) :
          Contended(x, y) /\ Contenders(x, y) = {2, 3}

(***************************************************************************)
(* Lesson 13: the collision system                                         *)
(***************************************************************************)

\* Scaled-down map.width = 20, map.height = 15 of main.
MapWidth == 6
MapHeight == 5

\* typedef enum { COLLISION_NONE, ... } CollisionType
COLLISION_NONE == "COLLISION_NONE"
COLLISION_SOLID == "COLLISION_SOLID"
COLLISION_TRIGGER == "COLLISION_TRIGGER"
COLLISION_DAMAGE == "COLLISION_DAMAGE"
COLLISION_SLOW == "COLLISION_SLOW"

\* CollisionRule defaultRules[] (the speed modifier is not modelled)
defaultRules ==
    << [tile |-> "#", type |-> COLLISION_SOLID, damage |-> 0],
       [tile |-> "~", type |-> COLLISION_SLOW, damage |-> 0],
       [tile |-> "^", type |-> COLLISION_DAMAGE, damage |-> 10],
       [tile |-> "+", type |-> COLLISION_SOLID, damage |-> 0],
       [tile |-> "=", type |-> COLLISION_TRIGGER, damage |-> 0] >>

\* The collision layer main builds, scaled down: a wall border, a floor row,
\* a row of water, pressure plate, spikes and a tile without a rule, and a
\* row with a closed door and an invisible barrier.
LayerTile(x, y) ==
    IF x = 0 \/ x = MapWidth - 1 \/ y = 0 \/ y = MapHeight - 1
    THEN "#"
    ELSE LET r == (y - 1) % 3
             c == ((x - 1) % 4) + 1
         IN  IF r = 0 THEN "."
             ELSE IF r = 1 THEN << "~", "=", "^", "X" >>[c]
             ELSE << ".", "+", "#", "." >>[c]

\* LayeredMap map (the visual layer plays no part in collisions)
MakeMap ==
    [collision |-> [idx \in 0..(MapWidth * MapHeight - 1) |->
                       LayerTile(idx % MapWidth, idx \div MapWidth)],
     width |-> MapWidth, height |-> MapHeight]

\* char GetTile(Map* map, int x, int y), on the collision layer
GetTile(m, x, y) ==
    IF x < 0 \/ x >= m.width \/ y < 0 \/ y >= m.height
    THEN "#"
    ELSE m.collision[y * m.width + x]

\* The CollisionType the rules give a tile character.
RuleType(tile) ==
    IF \E i \in DOMAIN defaultRules : defaultRules[i].tile = tile
    THEN defaultRules[CHOOSE i \in DOMAIN defaultRules : defaultRules[i].tile = tile].type
    ELSE COLLISION_NONE

\* classify(x, y): the collision kind of a position of the map.
Classify(m, x, y) == RuleType(GetTile(m, x, y))

\* GetEntityAt without "current->id != excludeId".
GetEntityAtAnyId(list, x, y, excludeId) ==
    LET S == {n \in DOMAIN list :
                list[n].isAlive /\ list[n].x = x /\ list[n].y = y /\ list[n].isSolid}
    IN  IF S = {} THEN 0 ELSE CHOOSE n \in S : \A k \in S : n <= k

\* Entity* GetEntityAt(Entity* entityList, int x, int y, int excludeId):
\* the first entry of the list that matches, as its place in the list
\* (0 is NULL).
GetEntityAt(list, x, y, excludeId) ==
    LET S == {n \in DOMAIN list :
                /\ list[n].isAlive
                /\ list[n].x = x
                /\ list[n].y = y
                /\ list[n].id # excludeId
                /\ list[n].isSolid}
    IN  IF S = {} THEN 0 ELSE CHOOSE n \in S : \A k \in S : n <= k

\* for (int i = 0; i < 5; i++)  // 5 is our rule count
RuleCount == 5

\* The loop over the rules stopping one rule early.
RECURSIVE RuleLoopShort(_, _, _)
RuleLoopShort(res, tile, i) ==
    IF i > RuleCount - 1
    THEN [res EXCEPT !.returned = FALSE]
    ELSE IF defaultRules[i].tile = tile
         THEN LET hit == [res EXCEPT !.tileHit = tile, !.type = defaultRules[i].type]
              IN  IF defaultRules[i].type = COLLISION_SOLID
                  THEN [hit EXCEPT !.canMove = FALSE, !.returned = TRUE]
                  ELSE RuleLoopShort(hit, tile, i + 1)
         ELSE RuleLoopShort(res, tile, i + 1)

\* Step 2 of CheckAllCollisions: the loop over the rules, from rule i on
\* (rules are counted from 1 here).
RECURSIVE RuleLoop(_, _, _)
RuleLoop(res, tile, i) ==
    IF i > RuleCount
    THEN [res EXCEPT !.returned = FALSE]
    ELSE IF defaultRules[i].tile = tile
         THEN LET hit == [res EXCEPT !.tileHit = tile, !.type = defaultRules[i].type]
              IN  IF defaultRules[i].type = COLLISION_SOLID
                  THEN [hit EXCEPT !.canMove = FALSE, !.returned = TRUE]
                  ELSE RuleLoop(hit, tile, i + 1)
         ELSE RuleLoop(res, tile, i + 1)

\* CheckAllCollisions with "newX > map->width" for its bounds check; a read
\* past the end of the layer yields '?'.
CheckAllCollisionsOffByOne(m, list, mover, newX, newY) ==
    LET init == [canMove |-> TRUE, type |-> COLLISION_NONE, entityHit |-> 0,
                 tileHit |-> ".", returned |-> FALSE]
        clean(r) == [canMove |-> r.canMove, type |-> r.type,
                     entityHit |-> r.entityHit, tileHit |-> r.tileHit]
    IN  IF newX < 0 \/ newX > m.width \/ newY < 0 \/ newY >= m.height
        THEN clean([init EXCEPT !.canMove = FALSE, !.type = COLLISION_SOLID])
        ELSE LET idx == newY * m.width + newX
                 tile == IF idx \in DOMAIN m.collision THEN m.collision[idx] ELSE "?"
                 r2 == RuleLoop(init, tile, 1)
             IN  IF r2.returned THEN clean(r2)
                 ELSE LET hit == GetEntityAt(list, newX, newY, list[mover].id)
                      IN  IF hit # 0 /\ list[hit].isSolid
                          THEN clean([r2 EXCEPT !.canMove = FALSE,
                                                !.type = COLLISION_SOLID,
                                                !.entityHit = hit])
                          ELSE clean(r2)

\* CollisionResult CheckAllCollisions(LayeredMap* map, Entity* entityList,
\*                                    Entity* mover, int newX, int newY)
\* mover is the mover's place in the list.
CheckAllCollisions(m, list, mover, newX, newY) ==
    LET init == [canMove |-> TRUE, type |-> COLLISION_NONE, entityHit |-> 0,
                 tileHit |-> ".", returned |-> FALSE]
        clean(r) == [canMove |-> r.canMove, type |-> r.type,
                     entityHit |-> r.entityHit, tileHit |-> r.tileHit]
    IN  IF newX < 0 \/ newX >= m.width \/ newY < 0 \/ newY >= m.height
        THEN clean([init EXCEPT !.canMove = FALSE, !.type = COLLISION_SOLID])
        ELSE LET tile == m.collision[newY * m.width + newX]
                 r2 == RuleLoop(init, tile, 1)
             IN  IF r2.returned THEN clean(r2)
                 ELSE LET hit == GetEntityAt(list, newX, newY, list[mover].id)
                      IN  IF hit # 0 /\ list[hit].isSolid
                          THEN clean([r2 EXCEPT !.canMove = FALSE,
                                                !.type = COLLISION_SOLID,
                                                !.entityHit = hit])
                          ELSE clean(r2)

\* void PushEntity(Entity* mover, Entity* target)
PushEntity(list, mover, target) ==
    LET dx == list[target].x - list[mover].x
        dy == list[target].y - list[mover].y
    IN  [list EXCEPT ![target].x = @ + dx, ![target].y = @ + dy]

\* main, before the loop: the map, the player (id 1) at a floor tile and the
\* NPC (id 2) on the same row.  The Entity fields isSolid and isAlive of the
\* NPC, and a third entity of the list, are drawn from their types.
CollisionInit ==
    /\ map = MakeMap
    /\ \E npcSolid \in BOOLEAN, npcAlive \in BOOLEAN, e3Solid \in BOOLEAN,
          e3Pos \in {<<3, 1>>, <<2, 2>>, <<-1, 1>>} :
            entityList =
              << [x |-> 1, y |-> 1, isSolid |-> TRUE, isAlive |-> TRUE, id |-> 1],
                 [x |-> 3, y |-> 1, isSolid |-> npcSolid, isAlive |-> npcAlive, id |-> 2],
                 [x |-> e3Pos[1], y |-> e3Pos[2], isSolid |-> e3Solid,
                  isAlive |-> TRUE, id |-> 3] >>
    /\ result = "none"
    /\ call = "none"
    /\ lastOp = "none"
    /\ sg = "none"
    /\ DungeonOff
    /\ AIOff
    /\ CombatOff

\* main's input handling: the player's move is resolved, and committed when
\* the result allows it.
MovePlayer(dx, dy) ==
    /\ dx # 0 \/ dy # 0
    /\ LET newX == entityList[1].x + dx
           newY == entityList[1].y + dy
           res == CheckAllCollisions(map, entityList, 1, newX, newY)
       IN  /\ result' = res
           /\ call' = [mover |-> 1, x |-> newX, y |-> newY]
           /\ entityList' = IF res.canMove
                            THEN [entityList EXCEPT ![1].x = newX, ![1].y = newY]
                            ELSE entityList
    /\ lastOp' = "move"
    /\ UNCHANGED <<map, sg>>

\* A resolver that runs the push response on the entity it hits.
ResolveAndPush(mover, dx, dy) ==
    LET x == entityList[mover].x + dx
        y == entityList[mover].y + dy
        res == CheckAllCollisions(map, entityList, mover, x, y)
    IN  /\ result' = res
        /\ call' = [mover |-> mover, x |-> x, y |-> y]
        /\ lastOp' = "resolve"
        /\ entityList' = IF res.entityHit # 0
                         THEN PushEntity(entityList, mover, res.entityHit)
                         ELSE entityList
        /\ UNCHANGED <<map, sg>>

\* A call of CheckAllCollisions on its own, for any mover of the list and a
\* destination (dx, dy) away from it; nothing is committed.
Resolve(mover, dx, dy) ==
    LET x == entityList[mover].x + dx
        y == entityList[mover].y + dy
    IN  /\ result' = CheckAllCollisions(map, entityList, mover, x, y)
        /\ call' = [mover |-> mover, x |-> x, y |-> y]
        /\ lastOp' = "resolve"
        /\ UNCHANGED <<map, entityList, sg>>

CollisionNext ==
    \/ \E dx \in {-1, 0, 1}, dy \in {-1, 0, 1} :
          MovePlayer(dx, dy) /\ UNCHANGED <<dungeonVars, aiVars, combat>>
    \/ \E mover \in 1..3, dx \in {-2, -1, 0, 1, 2}, dy \in {-2, -1, 0, 1, 2} :
          Resolve(mover, dx, dy) /\ UNCHANGED <<dungeonVars, aiVars, combat>>

SpecCollision == CollisionInit /\ [][CollisionNext]_vars

(***************************************************************************)
(* Lesson 13: properties                                                   *)
(***************************************************************************)

OutOfBounds(x, y) == x < 0 \/ x >= map.width \/ y < 0 \/ y >= map.height

\* A live solid entity other than the mover stands on the destination of the
\* last call.
OccupiedByOther ==
    \E n \in DOMAIN entityList :
        /\ n # call.mover
        /\ entityList[n].isAlive /\ entityList[n].isSolid
        /\ entityList[n].x = call.x /\ entityList[n].y = call.y

C5_OutOfBoundsSolid ==
    /\ \A x \in -2..(map.width + 1), y \in -2..(map.height + 1) :
          OutOfBounds(x, y) => Classify(map, x, y) = COLLISION_SOLID
    /\ (lastOp = "resolve" /\ OutOfBounds(call.x, call.y)) =>
          result = [canMove |-> FALSE, type |-> COLLISION_SOLID,
                    entityHit |-> 0, tileHit |-> "."]

\* C5 witness: a call for a destination outside the map on which a live
\* solid entity other than the mover stands.
C5_Witness ==
    lastOp = "resolve" /\ OutOfBounds(call.x, call.y) /\ OccupiedByOther

C7_BlockedIffOccupied ==
    (/\ lastOp = "resolve" /\ ~ OutOfBounds(call.x, call.y)
     /\ Classify(map, call.x, call.y) # COLLISION_SOLID) =>
        /\ ~ result.canMove <=> OccupiedByOther
        /\ result.entityHit # 0 =>
              LET e == entityList[result.entityHit]
              IN  /\ result.entityHit # call.mover
                  /\ e.isAlive /\ e.isSolid /\ e.x = call.x /\ e.y = call.y

\* C7 witness: a move that was allowed onto a walkable tile on which another
\* entity stands that is dead or not solid.
C7_Witness ==
    /\ lastOp = "resolve" /\ ~ OutOfBounds(call.x, call.y)
    /\ Classify(map, call.x, call.y) # COLLISION_SOLID
    /\ result.canMove
    /\ \E n \in DOMAIN entityList :
          /\ n # call.mover
          /\ entityList[n].x = call.x /\ entityList[n].y = call.y
          /\ ~ (entityList[n].isAlive /\ entityList[n].isSolid)

(***************************************************************************)
(* Lesson 13: the spatial grid                                             *)
(***************************************************************************)

\* #define GRID_SIZE 10, scaled down with the map.
GRID_SIZE == 2

\* int / int of C: the quotient truncated towards zero.
CDiv(a, b) == IF a >= 0 THEN a \div b ELSE -((-a) \div b)

\* SpatialGrid* CreateSpatialGrid(int worldWidth, int worldHeight): every
\* cell holds the empty list.
CreateSpatialGrid(worldWidth, worldHeight) ==
    LET gridWidth == (worldWidth + GRID_SIZE - 1) \div GRID_SIZE
        gridHeight == (worldHeight + GRID_SIZE - 1) \div GRID_SIZE
    IN  [grid |-> [c \in (0..(gridWidth - 1)) \X (0..(gridHeight - 1)) |-> << >>],
         gridWidth |-> gridWidth, gridHeight |-> gridHeight]

\* void GetGridCell(int entityX, int entityY, int* gridX, int* gridY)
GetGridCell(entityX, entityY) ==
    << CDiv(entityX, GRID_SIZE), CDiv(entityY, GRID_SIZE) >>

\* The entities of the list that stand in cell c, in list order.
RECURSIVE NodesOf(_, _, _)
NodesOf(list, c, n) ==
    IF n > Len(list)
    THEN << >>
    ELSE IF GetGridCell(list[n].x, list[n].y) = c
         THEN << n >> \o NodesOf(list, c, n + 1)
         ELSE NodesOf(list, c, n + 1)

\* A SpatialGrid in which each entity of the list is a node of the cell it
\* stands in.  The lesson has no function that fills the grid; this is the
\* grid CheckNearbyCollisions is written for.
FilledGrid(list, worldWidth, worldHeight) ==
    LET empty == CreateSpatialGrid(worldWidth, worldHeight)
    IN  [empty EXCEPT !.grid = [c \in DOMAIN empty.grid |-> NodesOf(list, c, 1)]]

\* CheckNearbyCollisions without "node->entity->id != entity->id".
CheckNearbyCollisionsAnyId(grid, list, entity, newX, newY) ==
    LET cell == GetGridCell(newX, newY)
    IN  \E dy \in {-1, 0, 1}, dx \in {-1, 0, 1} :
           LET checkX == cell[1] + dx
               checkY == cell[2] + dy
           IN  /\ ~ (\/ checkX < 0 \/ checkX >= grid.gridWidth
                     \/ checkY < 0 \/ checkY >= grid.gridHeight)
               /\ \E k \in DOMAIN grid.grid[<<checkX, checkY>>] :
                     LET node == grid.grid[<<checkX, checkY>>][k]
                     IN  list[node].x = newX /\ list[node].y = newY

\* bool CheckNearbyCollisions(SpatialGrid* sg, Entity* entity, int newX,
\*                            int newY)
\* The loops return at the first hit, so the result is whether any node of
\* the nine cells hits.  A node is the place of its entity in the list.
CheckNearbyCollisions(grid, list, entity, newX, newY) ==
    LET cell == GetGridCell(newX, newY)
    IN  \E dy \in {-1, 0, 1}, dx \in {-1, 0, 1} :
           LET checkX == cell[1] + dx
               checkY == cell[2] + dy
           IN  /\ ~ (\/ checkX < 0 \/ checkX >= grid.gridWidth
                     \/ checkY < 0 \/ checkY >= grid.gridHeight)
               /\ \E k \in DOMAIN grid.grid[<<checkX, checkY>>] :
                     LET node == grid.grid[<<checkX, checkY>>][k]
                     IN  /\ list[node].x = newX
                         /\ list[node].y = newY
                         /\ list[node].id # list[entity].id

\* The map and the entities of main, and a spatial grid for the map: as
\* CreateSpatialGrid returns it, or with the entities in their cells.
GridInit ==
    /\ map = MakeMap
    /\ \E npcSolid \in BOOLEAN, npcAlive \in BOOLEAN,
          e3Pos \in {<<3, 1>>, <<2, 1>>, <<-1, 1>>} :
            entityList =
              << [x |-> 1, y |-> 1, isSolid |-> TRUE, isAlive |-> TRUE, id |-> 1],
                 [x |-> 3, y |-> 1, isSolid |-> npcSolid, isAlive |-> npcAlive, id |-> 2],
                 [x |-> e3Pos[1], y |-> e3Pos[2], isSolid |-> TRUE,
                  isAlive |-> TRUE, id |-> 3] >>
    /\ sg \in {CreateSpatialGrid(map.width, map.height),
                FilledGrid(entityList, map.width, map.height)}
    /\ result = "none"
    /\ call = "none"
    /\ lastOp = "none"
    /\ DungeonOff
    /\ AIOff
    /\ CombatOff

\* A call of CheckNearbyCollisions for any entity of the list and a
\* destination (dx, dy) away from it.
CheckNearby(mover, dx, dy) ==
    LET x == entityList[mover].x + dx
        y == entityList[mover].y + dy
    IN  /\ result' = CheckNearbyCollisions(sg, entityList, mover, x, y)
        /\ call' = [mover |-> mover, x |-> x, y |-> y]
        /\ lastOp' = "nearby"
        /\ UNCHANGED <<map, entityList, sg>>

GridNext ==
    \/ \E dx \in {-1, 0, 1}, dy \in {-1, 0, 1} :
          MovePlayer(dx, dy) /\ UNCHANGED <<dungeonVars, aiVars, combat>>
    \/ \E mover \in 1..3, dx \in {-1, 0, 1}, dy \in {-1, 0, 1} :
          CheckNearby(mover, dx, dy) /\ UNCHANGED <<dungeonVars, aiVars, combat>>

SpecGrid == GridInit /\ [][GridNext]_vars

\* The cells of the grid that hold entity n as a node.
CellsOf(n) ==
    { c \in DOMAIN sg.grid : \E k \in DOMAIN sg.grid[c] : sg.grid[c][k] = n }

\* Entity n is a node of the cell it stands in and of no other cell.
Registered(n) ==
    CellsOf(n) = { GetGridCell(entityList[n].x, entityList[n].y) }

\* C21: after a pass of main's loop every live entity is a node of exactly
\* one cell of the grid, the cell of its position.
C21_IndexMatches ==
    lastOp = "move" =>
        \A n \in DOMAIN entityList : entityList[n].isAlive => Registered(n)

\* C28: when every entity is a node of the cell it stands in and of no
\* other, CheckNearbyCollisions for a destination on the map is true exactly
\* when an entity with another id than the mover's stands at the
\* destination.
C28_NearbyIsLinearScan ==
    (/\ lastOp = "nearby"
     /\ \A n \in DOMAIN entityList : Registered(n)
     /\ ~ OutOfBounds(call.x, call.y))
    => (result <=>
          \E n \in DOMAIN entityList :
             /\ entityList[n].id # entityList[call.mover].id
             /\ entityList[n].x = call.x
             /\ entityList[n].y = call.y)

\* C28 witness: a call on a grid that holds every entity in its cell, for a
\* destination away from the mover, that finds an entity GetEntityAt passes
\* over (one that is not alive or not solid).
C28_Witness ==
    /\ lastOp = "nearby"
    /\ \A n \in DOMAIN entityList : Registered(n)
    /\ <<call.x, call.y>> # <<entityList[call.mover].x, entityList[call.mover].y>>
    /\ ~ OutOfBounds(call.x, call.y)
    /\ result = TRUE
    /\ GetEntityAt(entityList, call.x, call.y, entityList[call.mover].id) = 0

(***************************************************************************)
(* Lesson 13: the collision responses                                      *)
(***************************************************************************)

\* A swap without the temporaries: the mover's position is overwritten
\* before it is handed to the target.
SwapPositionsNoTemp(list, mover, target) ==
    [list EXCEPT ![mover].x = list[target].x, ![mover].y = list[target].y]

\* void SwapPositions(Entity* mover, Entity* target)
SwapPositions(list, mover, target) ==
    LET tempX == list[mover].x
        tempY == list[mover].y
        moved == [list EXCEPT ![mover].x = list[target].x,
                              ![mover].y = list[target].y]
    IN  [moved EXCEPT ![target].x = tempX, ![target].y = tempY]

\* The mover, one step away from the target, steps onto the target's tile
\* and CheckAllCollisions reports the target as the entity hit: the case a
\* CollisionResponse is called for.
Bumps(mover, target) ==
    /\ mover # target
    /\ Max(Abs(entityList[target].x - entityList[mover].x),
           Abs(entityList[target].y - entityList[mover].y)) = 1
    /\ CheckAllCollisions(map, entityList, mover, entityList[target].x,
                          entityList[target].y).entityHit = target

\* onCollide = PushEntity, called for a mover that bumps into the target.
CallPushEntity(mover, target) ==
    /\ Bumps(mover, target)
    /\ entityList' = PushEntity(entityList, mover, target)
    /\ call' = [mover |-> mover, target |-> target, before |-> entityList]
    /\ lastOp' = "push"
    /\ UNCHANGED <<map, result, sg>>

\* onCollide = SwapPositions, called for a mover that bumps into the target.
CallSwapPositions(mover, target) ==
    /\ Bumps(mover, target)
    /\ entityList' = SwapPositions(entityList, mover, target)
    /\ call' = [mover |-> mover, target |-> target, before |-> entityList]
    /\ lastOp' = "swap"
    /\ UNCHANGED <<map, result, sg>>

ResponsesNext ==
    \/ \E mover \in 1..3, target \in 1..3 :
          CallPushEntity(mover, target) /\ UNCHANGED <<dungeonVars, aiVars, combat>>
    \/ \E mover \in 1..3, target \in 1..3 :
          CallSwapPositions(mover, target) /\ UNCHANGED <<dungeonVars, aiVars, combat>>

SpecResponses == CollisionInit /\ [][ResponsesNext]_vars

\* C22 (as stated): after a push the target is one tile further along the
\* mover's step, on the map, on a tile that is not SOLID and on no other live
\* solid entity.
C22_PushLandsOnFreeTile ==
    lastOp = "push" =>
        LET t == entityList[call.target]
            dx == call.before[call.target].x - call.before[call.mover].x
            dy == call.before[call.target].y - call.before[call.mover].y
        IN  /\ t.x = call.before[call.target].x + dx
            /\ t.y = call.before[call.target].y + dy
            /\ ~ OutOfBounds(t.x, t.y)
            /\ Classify(map, t.x, t.y) # COLLISION_SOLID
            /\ GetEntityAt(entityList, t.x, t.y, t.id) = 0

\* C23: after a swap the mover stands where the target stood and the target
\* where the mover stood, nothing else of the list has changed, and the same
\* swap applied again gives back the list as it was.
C23_SwapExchanges ==
    lastOp = "swap" =>
        /\ entityList[call.mover].x = call.before[call.target].x
        /\ entityList[call.mover].y = call.before[call.target].y
        /\ entityList[call.target].x = call.before[call.mover].x
        /\ entityList[call.target].y = call.before[call.mover].y
        /\ \A n \in DOMAIN entityList :
              /\ entityList[n].id = call.before[n].id
              /\ entityList[n].isSolid = call.before[n].isSolid
              /\ entityList[n].isAlive = call.before[n].isAlive
              /\ n \notin {call.mover, call.target} => entityList[n] = call.before[n]
        /\ SwapPositions(entityList, call.mover, call.target) = call.before

\* C23 witness: a swap of two entities that had been moved before, with a
\* third entity in the list.
C23_Witness ==
    /\ lastOp = "swap"
    /\ <<call.before[call.mover].x, call.before[call.mover].y>>
          \notin {<<1, 1>>, <<2, 1>>, <<3, 1>>}
    /\ <<entityList[call.mover].x, entityList[call.mover].y>>
          = <<call.before[call.target].x, call.before[call.target].y>>
    /\ <<entityList[call.target].x, entityList[call.target].y>>
          = <<call.before[call.mover].x, call.before[call.mover].y>>

(***************************************************************************)
(* Lesson 14: perception and the breadcrumb field, called on their own     *)
(***************************************************************************)

\* The size of the maps the functions are called on.
GridWidth == 5
GridHeight == 5

\* The cells that may hold a wall in those maps.
WallCandidates == { <<1, 0>>, <<0, 1>>, <<1, 1>>, <<2, 2>> }

\* The sight ranges of the callers.
SightRanges == {2, 5, 10}

GridCells == (0..(GridWidth - 1)) \X (0..(GridHeight - 1))

\* char map[]: '#' on the walls, '.' elsewhere, row after row.
MakeGrid(walls) ==
    [cells |-> [idx \in 0..(GridWidth * GridHeight - 1) |->
                   IF <<idx % GridWidth, idx \div GridWidth>> \in walls
                   THEN "#" ELSE "."],
     width |-> GridWidth, height |-> GridHeight]

\* int ManhattanDistance(int x1, int y1, int x2, int y2)
ManhattanDistance(x1, y1, x2, y2) == Abs(x2 - x1) + Abs(y2 - y1)

\* CanSeePosition, the set-up of the line: dx, dy, sx, sy, err.
LineStart(x0, y0, targetX, targetY) ==
    LET dx == Abs(targetX - x0)
        dy == Abs(targetY - y0)
    IN  [x |-> x0, y |-> y0, dx |-> dx, dy |-> dy,
         sx |-> IF x0 < targetX THEN 1 ELSE -1,
         sy |-> IF y0 < targetY THEN 1 ELSE -1,
         err |-> dx - dy]

\* CanSeePosition, "Move along the line": one pass of the loop body after the
\* tile check.
LineStep(p) ==
    LET e2 == 2 * p.err
        p1 == IF e2 > -p.dy
              THEN [p EXCEPT !.err = @ - p.dy, !.x = @ + p.sx]
              ELSE p
    IN  IF e2 < p.dx
        THEN [p1 EXCEPT !.err = @ + p.dx, !.y = @ + p.sy]
        ELSE p1

\* CanSeePosition, the while loop: FALSE at the first '#' under the walker,
\* TRUE when the walker arrives at the target.
RECURSIVE LineWalk(_, _, _, _, _)
LineWalk(p, targetX, targetY, m, mapWidth) ==
    IF p.x = targetX /\ p.y = targetY
    THEN TRUE
    ELSE IF m[p.y * mapWidth + p.x] = "#"
         THEN FALSE
         ELSE LineWalk(LineStep(p), targetX, targetY, m, mapWidth)

\* A line walk that stops as soon as either coordinate is the target's.
RECURSIVE LineTraceEitherAxis(_, _, _, _, _, _)
LineTraceEitherAxis(p, targetX, targetY, m, mapWidth, reads) ==
    IF p.x = targetX \/ p.y = targetY
    THEN [reads |-> reads, x |-> p.x, y |-> p.y, clear |-> TRUE]
    ELSE LET read == Append(reads, <<p.x, p.y>>)
         IN  IF m[p.y * mapWidth + p.x] = "#"
             THEN [reads |-> read, x |-> p.x, y |-> p.y, clear |-> FALSE]
             ELSE LineTraceEitherAxis(LineStep(p), targetX, targetY,
                                      m, mapWidth, read)

\* CanSeePosition, the while loop again, keeping what it did: the cells
\* whose tile it read, in order, where the walker stood when the loop was
\* left, and whether it was left by the loop condition (clear) or by the
\* return at a '#'.
RECURSIVE LineTrace(_, _, _, _, _, _)
LineTrace(p, targetX, targetY, m, mapWidth, reads) ==
    IF p.x = targetX /\ p.y = targetY
    THEN [reads |-> reads, x |-> p.x, y |-> p.y, clear |-> TRUE]
    ELSE LET read == Append(reads, <<p.x, p.y>>)
         IN  IF m[p.y * mapWidth + p.x] = "#"
             THEN [reads |-> read, x |-> p.x, y |-> p.y, clear |-> FALSE]
             ELSE LineTrace(LineStep(p), targetX, targetY, m, mapWidth, read)

\* CanSeePosition rejecting a target at exactly sightRange.
CanSeePositionStrict(e, targetX, targetY, m, mapWidth) ==
    IF ManhattanDistance(e.x, e.y, targetX, targetY) >= e.sightRange
    THEN FALSE
    ELSE LineWalk(LineStart(e.x, e.y, targetX, targetY),
                  targetX, targetY, m, mapWidth)

\* bool CanSeePosition(Enemy* enemy, int targetX, int targetY, char* map,
\*                     int mapWidth)
CanSeePosition(e, targetX, targetY, m, mapWidth) ==
    IF ManhattanDistance(e.x, e.y, targetX, targetY) > e.sightRange
    THEN FALSE
    ELSE LineWalk(LineStart(e.x, e.y, targetX, targetY),
                  targetX, targetY, m, mapWidth)

\* The calls are made for an enemy that stands on a floor tile of a map and a
\* target position on the map.
SightInit ==
    /\ \E walls \in SUBSET WallCandidates :
          /\ tiles = MakeGrid(walls)
          /\ \E a \in GridCells \ walls, r \in SightRanges :
                enemy = [x |-> a[1], y |-> a[2], sightRange |-> r]
    /\ \E b \in GridCells : targetXY = [x |-> b[1], y |-> b[2]]
    /\ seen = << >>
    /\ distanceMap = Off
    /\ calledAt = Off
    /\ DemoOff
    /\ DungeonOff
    /\ CollisionOff
    /\ CombatOff

\* The enemy looks at the target.
Look ==
    /\ seen = << >>
    /\ seen' = << CanSeePosition(enemy, targetXY.x, targetXY.y,
                                 tiles.cells, tiles.width) >>
    /\ UNCHANGED <<tiles, enemy, targetXY, distanceMap, calledAt>>

\* An enemy of the same sight range at the target looks back.
LookBack ==
    /\ Len(seen) = 1
    /\ seen' = Append(seen,
                      CanSeePosition([x |-> targetXY.x, y |-> targetXY.y,
                                      sightRange |-> enemy.sightRange],
                                     enemy.x, enemy.y, tiles.cells, tiles.width))
    /\ UNCHANGED <<tiles, enemy, targetXY, distanceMap, calledAt>>

SightNext ==
    \/ Look /\ UNCHANGED <<dungeonVars, collisionVars, demoVars, combat>>
    \/ LookBack /\ UNCHANGED <<dungeonVars, collisionVars, demoVars, combat>>

SpecSight == SightInit /\ [][SightNext]_vars

(***************************************************************************)
(* Lesson 14: MoveWithBreadcrumbs, called on its own                       *)
(***************************************************************************)

\* int dx[] = {0, 0, -1, 1}; int dy[] = {-1, 1, 0, 0};
NeighbourDX == << 0, 0, -1, 1 >>
NeighbourDY == << -1, 1, 0, 0 >>

\* The neighbour loop of the flood fill without the test for walls.
RECURSIVE MarkNeighboursThroughWalls(_, _, _, _, _, _)
MarkNeighboursThroughWalls(st, m, x, y, currentDistance, i) ==
    IF i > 4
    THEN st
    ELSE LET nx == x + NeighbourDX[i]
             ny == y + NeighbourDY[i]
         IN  IF /\ nx >= 0 /\ nx < m.width
                /\ ny >= 0 /\ ny < m.height
                /\ st.dm[ny * m.width + nx] = -1
             THEN MarkNeighboursThroughWalls(
                      [dm |-> [st.dm EXCEPT ![ny * m.width + nx] = currentDistance + 1],
                       changed |-> TRUE],
                      m, x, y, currentDistance, i + 1)
             ELSE MarkNeighboursThroughWalls(st, m, x, y, currentDistance, i + 1)

\* The flood fill, "Check neighbors": the loop over the four neighbours of a
\* cell at currentDistance, from neighbour i on.
RECURSIVE MarkNeighbours(_, _, _, _, _, _)
MarkNeighbours(st, m, x, y, currentDistance, i) ==
    IF i > 4
    THEN st
    ELSE LET nx == x + NeighbourDX[i]
             ny == y + NeighbourDY[i]
         IN  IF /\ nx >= 0 /\ nx < m.width
                /\ ny >= 0 /\ ny < m.height
                /\ m.cells[ny * m.width + nx] # "#"
                /\ st.dm[ny * m.width + nx] = -1
             THEN MarkNeighbours(
                      [dm |-> [st.dm EXCEPT ![ny * m.width + nx] = currentDistance + 1],
                       changed |-> TRUE],
                      m, x, y, currentDistance, i + 1)
             ELSE MarkNeighbours(st, m, x, y, currentDistance, i + 1)

\* A sweep that spreads from every cell that has a distance, the ones
\* labelled earlier in the same sweep included.
RECURSIVE SweepAnyLabelled(_, _, _, _)
SweepAnyLabelled(st, m, currentDistance, idx) ==
    IF idx >= m.width * m.height
    THEN st
    ELSE SweepAnyLabelled(IF st.dm[idx] # -1
                          THEN MarkNeighbours(st, m, idx % m.width,
                                              idx \div m.width, currentDistance, 1)
                          ELSE st,
                          m, currentDistance, idx + 1)

\* The flood fill, the two for loops over y and x: one sweep over the map in
\* place, from cell idx on.
RECURSIVE Sweep(_, _, _, _)
Sweep(st, m, currentDistance, idx) ==
    IF idx >= m.width * m.height
    THEN st
    ELSE Sweep(IF st.dm[idx] = currentDistance
               THEN MarkNeighbours(st, m, idx % m.width, idx \div m.width,
                                   currentDistance, 1)
               ELSE st,
               m, currentDistance, idx + 1)

\* A flood fill that gives up after two sweeps, whatever is left to label.
RECURSIVE FloodFillTwoSweeps(_, _, _)
FloodFillTwoSweeps(dm, m, currentDistance) ==
    LET st == Sweep([dm |-> dm, changed |-> FALSE], m, currentDistance, 0)
    IN  IF st.changed /\ currentDistance < 1
        THEN FloodFillTwoSweeps(st.dm, m, currentDistance + 1)
        ELSE st.dm

\* The flood fill, while (changed).
RECURSIVE FloodFill(_, _, _)
FloodFill(dm, m, currentDistance) ==
    LET st == Sweep([dm |-> dm, changed |-> FALSE], m, currentDistance, 0)
    IN  IF st.changed THEN FloodFill(st.dm, m, currentDistance + 1) ELSE st.dm

\* The flood fill, while (changed): the number of times the body of the loop
\* runs, the last run (the one that changes nothing) included.
RECURSIVE FloodFillPasses(_, _, _)
FloodFillPasses(dm, m, currentDistance) ==
    LET st == Sweep([dm |-> dm, changed |-> FALSE], m, currentDistance, 0)
    IN  IF st.changed THEN 1 + FloodFillPasses(st.dm, m, currentDistance + 1) ELSE 1

\* MoveWithBreadcrumbs, the distance map: -1 everywhere, 0 at the target,
\* then the flood fill.
CreateDistanceMap(m, targetX, targetY) ==
    FloodFill([idx \in 0..(m.width * m.height - 1) |->
                  IF idx = targetY * m.width + targetX THEN 0 ELSE -1],
              m, 0)

\* int bestDistance = INT_MAX
INT_MAX == 2147483647

\* A scan of the adjacent cells in which a later cell of the same distance
\* replaces the best one.
RECURSIVE BestMoveLastMinimum(_, _, _, _, _)
BestMoveLastMinimum(best, dm, m, e, i) ==
    IF i > 4
    THEN best
    ELSE LET nx == e.x + NeighbourDX[i]
             ny == e.y + NeighbourDY[i]
         IN  IF /\ nx >= 0 /\ nx < m.width
                /\ ny >= 0 /\ ny < m.height
                /\ m.cells[ny * m.width + nx] # "#"
                /\ dm[ny * m.width + nx] >= 0
                /\ dm[ny * m.width + nx] <= best.distance
             THEN BestMoveLastMinimum(
                      [x |-> nx, y |-> ny, distance |-> dm[ny * m.width + nx]],
                      dm, m, e, i + 1)
             ELSE BestMoveLastMinimum(best, dm, m, e, i + 1)

\* MoveWithBreadcrumbs, "Check all adjacent cells": the best move from the
\* enemy's position, from neighbour i on.
RECURSIVE BestMove(_, _, _, _, _)
BestMove(best, dm, m, e, i) ==
    IF i > 4
    THEN best
    ELSE LET nx == e.x + NeighbourDX[i]
             ny == e.y + NeighbourDY[i]
         IN  IF /\ nx >= 0 /\ nx < m.width
                /\ ny >= 0 /\ ny < m.height
                /\ m.cells[ny * m.width + nx] # "#"
                /\ dm[ny * m.width + nx] >= 0
                /\ dm[ny * m.width + nx] < best.distance
             THEN BestMove([x |-> nx, y |-> ny, distance |-> dm[ny * m.width + nx]],
                           dm, m, e, i + 1)
             ELSE BestMove(best, dm, m, e, i + 1)

\* void MoveWithBreadcrumbs(Enemy* enemy, int targetX, int targetY,
\*                          char* map, int mapWidth, int mapHeight)
\* (the distance map is kept for inspection; the code frees it)
MoveWithBreadcrumbs ==
    LET dm == CreateDistanceMap(tiles, targetXY.x, targetXY.y)
        best == BestMove([x |-> enemy.x, y |-> enemy.y, distance |-> INT_MAX],
                         dm, tiles, enemy, 1)
    IN  /\ distanceMap' = dm
        /\ calledAt' = <<enemy.x, enemy.y>>
        /\ enemy' = [enemy EXCEPT !.x = best.x, !.y = best.y]
        /\ UNCHANGED <<tiles, targetXY, seen>>

\* The positions an enemy starts from.
StartCells == { <<0, 0>>, <<GridWidth - 1, 0>>, <<0, GridHeight - 1>> }

\* The function is called for an enemy on a floor tile and a target on a
\* floor tile of a map.
CrumbsInit ==
    /\ \E walls \in SUBSET WallCandidates :
          /\ tiles = MakeGrid(walls)
          /\ \E a \in StartCells \ walls :
                enemy = [x |-> a[1], y |-> a[2], sightRange |-> 5]
          /\ \E b \in GridCells \ walls : targetXY = [x |-> b[1], y |-> b[2]]
    /\ distanceMap = << >>
    /\ calledAt = << >>
    /\ seen = Off
    /\ DemoOff
    /\ DungeonOff
    /\ CollisionOff
    /\ CombatOff

CrumbsNext ==
    MoveWithBreadcrumbs /\ UNCHANGED <<dungeonVars, collisionVars, demoVars, combat>>

SpecCrumbs == CrumbsInit /\ [][CrumbsNext]_vars

(***************************************************************************)
(* Lesson 14: properties of CanSeePosition                                 *)
(***************************************************************************)

\* The integer (Bresenham) line from (x0, y0) to (x1, y1) in closed form: one
\* cell for each step along the longer axis, the other coordinate being the
\* ideal line's, rounded to the nearest cell, a tie going to the cell nearer
\* to the start.
BresenhamLine(x0, y0, x1, y1) ==
    LET dx == Abs(x1 - x0)
        dy == Abs(y1 - y0)
        sx == IF x0 < x1 THEN 1 ELSE -1
        sy == IF y0 < y1 THEN 1 ELSE -1
    IN  IF dx >= dy
        THEN [i \in 1..(dx + 1) |->
                 << x0 + sx * (i - 1),
                    y0 + sy * (IF dx = 0 THEN 0
                               ELSE (2 * (i - 1) * dy + dx - 1) \div (2 * dx)) >>]
        ELSE [i \in 1..(dy + 1) |->
                 << x0 + sx * ((2 * (i - 1) * dx + dy - 1) \div (2 * dy)),
                    y0 + sy * (i - 1) >>]

TileAt(c) == tiles.cells[c[2] * tiles.width + c[1]]

\* Some tile of the line strictly between its two ends is a wall.
IntermediateSolid(x0, y0, x1, y1) ==
    LET line == BresenhamLine(x0, y0, x1, y1)
    IN  \E i \in 2..(Len(line) - 1) : TileAt(line[i]) = "#"

WallsOfGrid == {c \in GridCells : TileAt(c) = "#"}

\* C8: CanSeePosition is false when the Manhattan distance to the target
\* exceeds the sight range; within range it is false exactly when a tile
\* strictly between observer and target on the Bresenham line is a wall.  On
\* a 5x5 map, from (0,0) to (4,4) with sight range 10, it is true without
\* walls and false with a wall at (2,2).
C8_SightRule ==
    Len(seen) >= 1 =>
        LET dist == Abs(targetXY.x - enemy.x) + Abs(targetXY.y - enemy.y)
        IN  /\ dist > enemy.sightRange => seen[1] = FALSE
            /\ dist <= enemy.sightRange =>
                  (seen[1] = FALSE <=>
                     IntermediateSolid(enemy.x, enemy.y, targetXY.x, targetXY.y))
            /\ (/\ tiles.width = 5 /\ tiles.height = 5
                /\ enemy.x = 0 /\ enemy.y = 0 /\ enemy.sightRange = 10
                /\ targetXY.x = 4 /\ targetXY.y = 4) =>
                  /\ WallsOfGrid = {} => seen[1] = TRUE
                  /\ <<2, 2>> \in WallsOfGrid => seen[1] = FALSE

\* C8 witness: a target within range that a wall strictly between observer
\* and target hides, on a map where the target itself is not a wall.
C8_Witness ==
    /\ Len(seen) >= 1
    /\ Abs(targetXY.x - enemy.x) + Abs(targetXY.y - enemy.y) <= enemy.sightRange
    /\ IntermediateSolid(enemy.x, enemy.y, targetXY.x, targetXY.y)
    /\ TileAt(<<targetXY.x, targetXY.y>>) # "#"
    /\ seen[1] = FALSE

Adjacent(a, b) == Abs(a[1] - b[1]) + Abs(a[2] - b[2]) = 1

\* The lengths of the shortest 4-connected paths over floor tiles, ring by
\* ring: the cells at k + 1 are the floor cells next to a cell at k that no
\* shorter path reaches.
RECURSIVE PathLengths(_, _, _)
PathLengths(found, frontier, k) ==
    IF frontier = {}
    THEN found
    ELSE LET next == {n \in (GridCells \ WallsOfGrid) \ DOMAIN found :
                         \E c \in frontier : Adjacent(c, n)}
         IN  PathLengths(found @@ [n \in next |-> k + 1], next, k + 1)

ShortestPaths ==
    LET seed == <<targetXY.x, targetXY.y>>
    IN  PathLengths([c \in {seed} |-> 0], {seed}, 0)

RecordedAt(c) == distanceMap[c[2] * tiles.width + c[1]]

\* C10: the distance map holds, for every cell that a 4-connected path over
\* floor tiles joins to the target, the length of the shortest such path, and
\* -1 (no distance) for walls and for cells no such path reaches; on a 5x5
\* map without walls and the target at (4,4) it holds 8 at (0,0).
C10_FieldIsShortestPath ==
    distanceMap # << >> =>
        /\ LET shortest == ShortestPaths
           IN  \A c \in GridCells :
                  IF c \in DOMAIN shortest
                  THEN RecordedAt(c) = shortest[c]
                  ELSE RecordedAt(c) = -1
        /\ (/\ tiles.width = 5 /\ tiles.height = 5 /\ WallsOfGrid = {}
            /\ targetXY.x = 4 /\ targetXY.y = 4) => RecordedAt(<<0, 0>>) = 8

\* C10 witness: a distance map with a floor cell that no path reaches, a wall,
\* and a cell whose shortest path is longer than the walk through the walls.
C10_Witness ==
    /\ distanceMap # << >>
    /\ \E c \in GridCells \ WallsOfGrid : RecordedAt(c) = -1
    /\ \E c \in WallsOfGrid : RecordedAt(c) = -1
    /\ \E c \in GridCells :
          RecordedAt(c) > Abs(c[1] - targetXY.x) + Abs(c[2] - targetXY.y)

\* C11: the distance map holds 0 at the target, and along every step of a
\* 4-connected path that does not come nearer to the target (from a cell to
\* a neighbour whose shortest path to the target is not shorter) the value
\* held does not decrease.
C11_FieldMonotone ==
    distanceMap # << >> =>
        /\ RecordedAt(<<targetXY.x, targetXY.y>>) = 0
        /\ LET shortest == ShortestPaths
           IN  \A a \in DOMAIN shortest, b \in DOMAIN shortest :
                  (/\ Adjacent(a, b)
                   /\ shortest[a] <= shortest[b]
                   /\ RecordedAt(a) >= 0 /\ RecordedAt(b) >= 0)
                  => RecordedAt(a) <= RecordedAt(b)

\* C11 witness: a distance map on a map with walls in which some step away
\* from the target, around a wall, goes to a cell with a larger value than
\* its number of steps from the target in a straight walk.
C11_Witness ==
    /\ distanceMap # << >>
    /\ WallsOfGrid # {}
    /\ \E a \in GridCells, b \in GridCells :
          /\ Adjacent(a, b)
          /\ RecordedAt(a) >= 0
          /\ RecordedAt(b) = RecordedAt(a) + 1
          /\ RecordedAt(b) > Abs(b[1] - targetXY.x) + Abs(b[2] - targetXY.y)

\* The cells of the distance map that hold a distance.
Labelled == { c \in GridCells : RecordedAt(c) >= 0 }

\* The number of passes of while (changed) in the call that made the distance
\* map.
PassesOfCall ==
    FloodFillPasses([idx \in 0..(tiles.width * tiles.height - 1) |->
                        IF idx = targetXY.y * tiles.width + targetXY.x THEN 0 ELSE -1],
                    tiles, 0)

\* C12 (as stated): whatever budget of cells the caller has in mind, the flood
\* fill labels no more cells than the budget.
C12_WithinBudget ==
    distanceMap # << >> =>
        \A maxBudget \in 1..(GridWidth * GridHeight - 1) :
            Cardinality(Labelled) <= maxBudget

\* C12 (amended): the flood fill ends, after no more passes than the region
\* has cells; it ends at the first pass that labels nothing (one pass per
\* distance held and one more), and by then every cell joined to the target by
\* floor holds a distance, however many they are.
C12_FillEndsWithRegion ==
    distanceMap # << >> =>
        LET labelled == Labelled
            passes == PassesOfCall
        IN  /\ labelled = DOMAIN ShortestPaths
            /\ passes <= Cardinality(labelled)
            /\ \A c \in labelled : RecordedAt(c) < passes
            /\ \E c \in labelled : RecordedAt(c) = passes - 1

\* C12 witness: a call on a map with walls whose flood fill made more than
\* four passes and labelled more than half of the cells of the map.
C12_Witness ==
    /\ distanceMap # << >>
    /\ WallsOfGrid # {}
    /\ PassesOfCall > 4
    /\ 2 * Cardinality(Labelled) > GridWidth * GridHeight

\* The neighbour of cell c that the scan visits i-th.
NeighbourOf(c, i) == <<c[1] + NeighbourDX[i], c[2] + NeighbourDY[i]>>

\* The places in the scan of the neighbours of c that hold a distance.
RecordedNeighbours(c) ==
    { i \in 1..4 : NeighbourOf(c, i) \in GridCells /\ RecordedAt(NeighbourOf(c, i)) >= 0 }

\* C13: after a call the enemy is on the neighbour of the cell it was called
\* at that holds the smallest distance, the first such neighbour in the scan
\* order when several hold it; when no neighbour holds a distance the enemy
\* is where it was.
C13_NextStep ==
    distanceMap # << >> =>
        LET rec == RecordedNeighbours(calledAt)
        IN  IF rec = {}
            THEN <<enemy.x, enemy.y>> = calledAt
            ELSE \E i \in rec :
                    /\ \A j \in rec :
                          RecordedAt(NeighbourOf(calledAt, i))
                              <= RecordedAt(NeighbourOf(calledAt, j))
                    /\ \A j \in rec :
                          RecordedAt(NeighbourOf(calledAt, j))
                              = RecordedAt(NeighbourOf(calledAt, i)) => i <= j
                    /\ <<enemy.x, enemy.y>> = NeighbourOf(calledAt, i)

\* C13 witness: a call on a map with walls at a cell two of whose neighbours
\* hold the same smallest distance, one visited second and one visited
\* fourth in the scan, that moved the enemy.
C13_Witness ==
    /\ distanceMap # << >>
    /\ WallsOfGrid # {}
    /\ <<enemy.x, enemy.y>> # calledAt
    /\ {2, 4} \subseteq RecordedNeighbours(calledAt)
    /\ RecordedAt(NeighbourOf(calledAt, 2)) = RecordedAt(NeighbourOf(calledAt, 4))
    /\ \A j \in RecordedNeighbours(calledAt) :
          RecordedAt(NeighbourOf(calledAt, 2)) <= RecordedAt(NeighbourOf(calledAt, j))

(***************************************************************************)
(* Lesson 14: the AI demo (main)                                           *)
(***************************************************************************)

\* Scaled-down mapWidth = 30, mapHeight = 20 of main.
DemoWidth == 8
DemoHeight == 7

\* The number of passes of main's loop that are followed.
MaxFrames == 7

\* float deltaTime = GetFrameTime(), in milliseconds: the time of a frame.
FrameTime == 2000

\* main, "Simple room layout" and "Create corridors": walls all around, a
\* block of wall in the middle third (x in 10..20, y in 7..13 of the 30x20
\* map) and a corridor through it on the middle row.
DemoTile(x, y) ==
    IF x < 1 \/ x >= DemoWidth - 1 \/ y < 1 \/ y >= DemoHeight - 1
    THEN "#"
    ELSE IF \/ x < DemoWidth \div 3 \/ x > (2 * DemoWidth) \div 3
            \/ y < (7 * DemoHeight) \div 20 \/ y > (13 * DemoHeight) \div 20
         THEN "."
         ELSE IF y = DemoHeight \div 2 THEN "." ELSE "#"

DemoMap ==
    [cells |-> [idx \in 0..(DemoWidth * DemoHeight - 1) |->
                   DemoTile(idx % DemoWidth, idx \div DemoWidth)],
     width |-> DemoWidth, height |-> DemoHeight]

\* CreateEnemy, "Set type-specific properties".  moveSpeed is in tenths of a
\* tile per second, courage and aggression in hundredths.
TypeProperties ==
    [AI_TYPE_ZOMBIE |-> [health |-> 30, sightRange |-> 5, hearingRange |-> 3,
                         moveSpeed |-> 5, courage |-> 100, aggression |-> 100],
     AI_TYPE_GOBLIN |-> [health |-> 15, sightRange |-> 7, hearingRange |-> 5,
                         moveSpeed |-> 20, courage |-> 20, aggression |-> 40],
     AI_TYPE_GUARD  |-> [health |-> 50, sightRange |-> 8, hearingRange |-> 6,
                         moveSpeed |-> 10, courage |-> 80, aggression |-> 60],
     AI_TYPE_ARCHER |-> [health |-> 20, sightRange |-> 12, hearingRange |-> 4,
                         moveSpeed |-> 15, courage |-> 50, aggression |-> 70]]

\* Enemy* CreateEnemy(int x, int y, AIType type), with the two draws
\* (rand() % 20 - 10) for courage and aggression.  lastSeenPlayerX/Y are not
\* set by CreateEnemy: whatever malloc left there, here garbage.  searchTime
\* is the timer of UpdateSearchState, in milliseconds.
CreateEnemy(x, y, type, courageDraw, aggressionDraw, garbage) ==
    LET tp == TypeProperties[type]
    IN  [x |-> x, y |-> y, type |-> type, state |-> "AI_STATE_IDLE",
         health |-> tp.health,
         sightRange |-> tp.sightRange, hearingRange |-> tp.hearingRange,
         canSeePlayer |-> FALSE,
         lastSeenPlayerX |-> garbage, lastSeenPlayerY |-> garbage,
         moveSpeed |-> tp.moveSpeed, timeSinceMove |-> 0, searchTime |-> 0,
         courage |-> Max(0, Min(100, tp.courage + courageDraw)),
         aggression |-> Max(0, Min(100, tp.aggression + aggressionDraw))]

\* A perception that forgets where the player was seen when it is not seen.
UpdateEnemyPerceptionForgets(e, p, m, mapWidth) ==
    LET sees == CanSeePosition(e, p.x, p.y, m, mapWidth)
    IN  IF sees
        THEN [e EXCEPT !.canSeePlayer = TRUE,
                       !.lastSeenPlayerX = p.x, !.lastSeenPlayerY = p.y]
        ELSE [e EXCEPT !.canSeePlayer = FALSE,
                       !.lastSeenPlayerX = -1, !.lastSeenPlayerY = -1]

\* void UpdateEnemyPerception(Enemy* enemy, Player* player, char* map,
\*                            int mapWidth)
UpdateEnemyPerception(e, p, m, mapWidth) ==
    LET sees == CanSeePosition(e, p.x, p.y, m, mapWidth)
    IN  IF sees
        THEN [e EXCEPT !.canSeePlayer = TRUE,
                       !.lastSeenPlayerX = p.x, !.lastSeenPlayerY = p.y]
        ELSE [e EXCEPT !.canSeePlayer = FALSE]

\* An idle state that tests the aggression before the courage.
UpdateIdleStateChaseFirst(e, p, patrolDraw) ==
    LET chaseOrFlee ==
            IF ~ e.canSeePlayer THEN "none"
            ELSE IF e.aggression > 70 THEN "AI_STATE_CHASE"
                 ELSE IF e.courage < 30
                         /\ ManhattanDistance(e.x, e.y, p.x, p.y) < 5
                      THEN "AI_STATE_FLEE"
                      ELSE "none"
    IN  IF chaseOrFlee # "none"
        THEN [e EXCEPT !.state = chaseOrFlee]
        ELSE IF patrolDraw THEN [e EXCEPT !.state = "AI_STATE_PATROL"] ELSE e

\* An idle state in which an aggressive enemy chases a player it does not
\* see.
UpdateIdleStateBlindChase(e, p, patrolDraw) ==
    LET fleeOrChase ==
            IF e.canSeePlayer /\ e.courage < 30
                  /\ ManhattanDistance(e.x, e.y, p.x, p.y) < 5
            THEN "AI_STATE_FLEE"
            ELSE IF e.aggression > 70 THEN "AI_STATE_CHASE" ELSE "none"
    IN  IF fleeOrChase # "none"
        THEN [e EXCEPT !.state = fleeOrChase]
        ELSE IF patrolDraw THEN [e EXCEPT !.state = "AI_STATE_PATROL"] ELSE e

\* void UpdateIdleState(Enemy* enemy, Player* player, float deltaTime);
\* patrolDraw is rand() % 1000 < 5.
UpdateIdleState(e, p, patrolDraw) ==
    LET fleeOrChase ==
            IF ~ e.canSeePlayer THEN "none"
            ELSE IF e.courage < 30
                    /\ ManhattanDistance(e.x, e.y, p.x, p.y) < 5
                 THEN "AI_STATE_FLEE"
                 ELSE IF e.aggression > 70 THEN "AI_STATE_CHASE" ELSE "none"
    IN  IF fleeOrChase # "none"
        THEN [e EXCEPT !.state = fleeOrChase]
        ELSE IF patrolDraw THEN [e EXCEPT !.state = "AI_STATE_PATROL"] ELSE e

\* CanMoveTo(map, mapWidth, x, y) as MoveTowardsTarget calls it: it is handed
\* the map only, so it can answer for the tile and for nothing else.
CanMoveTo(m, mapWidth, x, y) == m[y * mapWidth + x] # "#"

\* void MoveTowardsTarget(Enemy* enemy, int targetX, int targetY, char* map,
\*                        int mapWidth)
MoveTowardsTarget(e, targetX, targetY, m, mapWidth) ==
    LET dx == targetX - e.x
        dy == targetY - e.y
        moveX == IF dx > 0 THEN 1 ELSE -1
        moveY == IF dy > 0 THEN 1 ELSE -1
        horizontal == [e EXCEPT !.x = @ + moveX]
        vertical == [e EXCEPT !.y = @ + moveY]
    IN  IF Abs(dx) > Abs(dy)
        THEN IF CanMoveTo(m, mapWidth, e.x + moveX, e.y) THEN horizontal
             ELSE IF CanMoveTo(m, mapWidth, e.x, e.y + moveY) THEN vertical
             ELSE e
        ELSE IF CanMoveTo(m, mapWidth, e.x, e.y + moveY) THEN vertical
             ELSE IF CanMoveTo(m, mapWidth, e.x + moveX, e.y) THEN horizontal
             ELSE e

\* A chase that moves at every update, whatever the movement timer holds.
UpdateChaseStateNoTimer(e, p, m, mapWidth, deltaTime) ==
    LET timed == [e EXCEPT !.timeSinceMove = @ + deltaTime]
    IN  IF ~ timed.canSeePlayer
        THEN [timed EXCEPT !.state = "AI_STATE_SEARCH"]
        ELSE IF ManhattanDistance(timed.x, timed.y, p.x, p.y) <= 1
             THEN [timed EXCEPT !.state = "AI_STATE_ATTACK"]
             ELSE [MoveTowardsTarget(timed, p.x, p.y, m, mapWidth)
                       EXCEPT !.timeSinceMove = 0]

\* A chase that attacks from two tiles away.
UpdateChaseStateLongReach(e, p, m, mapWidth, deltaTime) ==
    LET timed == [e EXCEPT !.timeSinceMove = @ + deltaTime]
    IN  IF ~ timed.canSeePlayer
        THEN [timed EXCEPT !.state = "AI_STATE_SEARCH"]
        ELSE IF ManhattanDistance(timed.x, timed.y, p.x, p.y) <= 2
             THEN [timed EXCEPT !.state = "AI_STATE_ATTACK"]
             ELSE IF timed.timeSinceMove * timed.moveSpeed >= 10000
                  THEN [MoveTowardsTarget(timed, p.x, p.y, m, mapWidth)
                            EXCEPT !.timeSinceMove = 0]
                  ELSE timed

\* void UpdateChaseState(Enemy* enemy, Player* player, char* map,
\*                       int mapWidth, float deltaTime)
\* (timeSinceMove >= 1.0f / moveSpeed, in milliseconds and tenths)
UpdateChaseState(e, p, m, mapWidth, deltaTime) ==
    LET timed == [e EXCEPT !.timeSinceMove = @ + deltaTime]
    IN  IF ~ timed.canSeePlayer
        THEN [timed EXCEPT !.state = "AI_STATE_SEARCH"]
        ELSE IF ManhattanDistance(timed.x, timed.y, p.x, p.y) <= 1
             THEN [timed EXCEPT !.state = "AI_STATE_ATTACK"]
             ELSE IF timed.timeSinceMove * timed.moveSpeed >= 10000
                  THEN [MoveTowardsTarget(timed, p.x, p.y, m, mapWidth)
                            EXCEPT !.timeSinceMove = 0]
                  ELSE timed

\* A search that has no end.
UpdateSearchStateForever(e, p, deltaTime) ==
    IF e.canSeePlayer
    THEN [e EXCEPT !.searchTime = 0]
    ELSE [e EXCEPT !.searchTime = @ + deltaTime]

\* The time an enemy searches without seeing the player, in milliseconds.
SearchTimeout == 4000

\* void UpdateSearchState(Enemy* enemy, Player* player, float deltaTime),
\* which UpdateEnemyAI calls and the lesson leaves to the reader: the time
\* without sight of the player is counted, and when it reaches the timeout
\* the enemy is idle again; sight of the player starts the count anew.
UpdateSearchState(e, p, deltaTime) ==
    IF e.canSeePlayer
    THEN [e EXCEPT !.searchTime = 0]
    ELSE IF e.searchTime + deltaTime >= SearchTimeout
         THEN [e EXCEPT !.state = "AI_STATE_IDLE", !.searchTime = 0]
         ELSE [e EXCEPT !.searchTime = @ + deltaTime]

\* void UpdateEnemyAI(Enemy* enemy, Player* player, char* map, int mapWidth,
\*                    float deltaTime)
\* The lesson leaves UpdatePatrolState, UpdateFleeState and UpdateAttackState
\* to the reader: in those states only the perception is updated.  There is
\* no case for AI_STATE_DEAD.
UpdateEnemyAI(e, p, m, mapWidth, deltaTime, patrolDraw) ==
    LET perceived == UpdateEnemyPerception(e, p, m, mapWidth)
    IN  CASE perceived.state = "AI_STATE_IDLE" ->
                UpdateIdleState(perceived, p, patrolDraw)
          [] perceived.state = "AI_STATE_CHASE" ->
                UpdateChaseState(perceived, p, m, mapWidth, deltaTime)
          [] perceived.state = "AI_STATE_SEARCH" ->
                UpdateSearchState(perceived, p, deltaTime)
          [] OTHER -> perceived

\* An alert that is heard only by the enemies that have a line of sight to
\* the alerter on the map.
RaiseAlertInSight(alerter, allEnemies, al) ==
    [alerts |-> [alertX |-> allEnemies[alerter].x,
                 alertY |-> allEnemies[alerter].y,
                 alertTime |-> 0, alerterId |-> alerter],
     enemies |->
        [n \in DOMAIN allEnemies |->
            LET current == allEnemies[n]
            IN  IF /\ n # alerter
                   /\ current.state = "AI_STATE_IDLE"
                   /\ ManhattanDistance(current.x, current.y,
                                        allEnemies[alerter].x,
                                        allEnemies[alerter].y)
                         <= current.hearingRange
                   /\ CanSeePosition(current, allEnemies[alerter].x,
                                     allEnemies[alerter].y,
                                     tiles.cells, tiles.width)
                THEN IF current.type = "AI_TYPE_GUARD"
                     THEN [current EXCEPT !.state = "AI_STATE_SEARCH",
                                          !.lastSeenPlayerX = allEnemies[alerter].x,
                                          !.lastSeenPlayerY = allEnemies[alerter].y]
                     ELSE IF current.courage < 50
                          THEN [current EXCEPT !.state = "AI_STATE_FLEE"]
                          ELSE current
                ELSE current]]

\* An alert that sends a guard searching without telling it where.
RaiseAlertKeepsLastSeen(alerter, allEnemies, al) ==
    [alerts |-> [alertX |-> allEnemies[alerter].x,
                 alertY |-> allEnemies[alerter].y,
                 alertTime |-> 0, alerterId |-> alerter],
     enemies |->
        [n \in DOMAIN allEnemies |->
            LET current == allEnemies[n]
            IN  IF /\ n # alerter
                   /\ current.state = "AI_STATE_IDLE"
                   /\ ManhattanDistance(current.x, current.y,
                                        allEnemies[alerter].x,
                                        allEnemies[alerter].y)
                         <= current.hearingRange
                THEN IF current.type = "AI_TYPE_GUARD"
                     THEN [current EXCEPT !.state = "AI_STATE_SEARCH"]
                     ELSE IF current.courage < 50
                          THEN [current EXCEPT !.state = "AI_STATE_FLEE"]
                          ELSE current
                ELSE current]]

\* An alert that is heard by the enemies in any state.
RaiseAlertAnyState(alerter, allEnemies, al) ==
    [alerts |-> [alertX |-> allEnemies[alerter].x,
                 alertY |-> allEnemies[alerter].y,
                 alertTime |-> 0, alerterId |-> alerter],
     enemies |->
        [n \in DOMAIN allEnemies |->
            LET current == allEnemies[n]
            IN  IF /\ n # alerter
                   /\ ManhattanDistance(current.x, current.y,
                                        allEnemies[alerter].x,
                                        allEnemies[alerter].y)
                         <= current.hearingRange
                THEN IF current.type = "AI_TYPE_GUARD"
                     THEN [current EXCEPT !.state = "AI_STATE_SEARCH",
                                          !.lastSeenPlayerX = allEnemies[alerter].x,
                                          !.lastSeenPlayerY = allEnemies[alerter].y]
                     ELSE IF current.courage < 50
                          THEN [current EXCEPT !.state = "AI_STATE_FLEE"]
                          ELSE current
                ELSE current]]

\* void RaiseAlert(Enemy* alerter, Enemy* allEnemies, AlertSystem* alerts)
\* (an enemy is identified by its place in the list)
RaiseAlert(alerter, allEnemies, al) ==
    [alerts |-> [alertX |-> allEnemies[alerter].x,
                 alertY |-> allEnemies[alerter].y,
                 alertTime |-> 0, alerterId |-> alerter],
     enemies |->
        [n \in DOMAIN allEnemies |->
            LET current == allEnemies[n]
            IN  IF /\ n # alerter
                   /\ current.state = "AI_STATE_IDLE"
                   /\ ManhattanDistance(current.x, current.y,
                                        allEnemies[alerter].x,
                                        allEnemies[alerter].y)
                         <= current.hearingRange
                THEN IF current.type = "AI_TYPE_GUARD"
                     THEN [current EXCEPT !.state = "AI_STATE_SEARCH",
                                          !.lastSeenPlayerX = allEnemies[alerter].x,
                                          !.lastSeenPlayerY = allEnemies[alerter].y]
                     ELSE IF current.courage < 50
                          THEN [current EXCEPT !.state = "AI_STATE_FLEE"]
                          ELSE current
                ELSE current]]

\* main, "Player input": a step onto a wall or onto any enemy is dropped.
PlayerInput(p, allEnemies, m, dx, dy) ==
    IF dx = 0 /\ dy = 0
    THEN p
    ELSE LET newX == p.x + dx
             newY == p.y + dy
         IN  IF /\ m.cells[newY * m.width + newX] # "#"
                /\ ~ \E n \in DOMAIN allEnemies :
                        allEnemies[n].x = newX /\ allEnemies[n].y = newY
             THEN [p EXCEPT !.x = newX, !.y = newY]
             ELSE p

\* A loop over the list that starts at its last enemy.
RECURSIVE UpdateAllEnemiesLastFirst(_, _, _, _, _, _)
UpdateAllEnemiesLastFirst(allEnemies, al, p, m, patrolDraws, n) ==
    IF n > Len(allEnemies)
    THEN [enemies |-> allEnemies, alerts |-> al]
    ELSE LET k == Len(allEnemies) + 1 - n
         IN  IF allEnemies[k].state = "AI_STATE_DEAD"
             THEN UpdateAllEnemiesLastFirst(allEnemies, al, p, m, patrolDraws, n + 1)
             ELSE LET updated ==
                          [allEnemies EXCEPT
                               ![k] = UpdateEnemyAI(@, p, m.cells, m.width,
                                                    FrameTime, patrolDraws[k])]
                  IN  IF updated[k].canSeePlayer /\ al.alertTime < 0
                      THEN LET raised == RaiseAlert(k, updated, al)
                           IN  UpdateAllEnemiesLastFirst(raised.enemies,
                                                         raised.alerts,
                                                         p, m, patrolDraws, n + 1)
                      ELSE UpdateAllEnemiesLastFirst(updated, al, p, m,
                                                     patrolDraws, n + 1)

\* main, "Update all enemies": the loop over the list from enemy n on; an
\* enemy that sees the player raises the alert when none is running.
RECURSIVE UpdateAllEnemies(_, _, _, _, _, _)
UpdateAllEnemies(allEnemies, al, p, m, patrolDraws, n) ==
    IF n > Len(allEnemies)
    THEN [enemies |-> allEnemies, alerts |-> al]
    ELSE IF allEnemies[n].state = "AI_STATE_DEAD"
         THEN UpdateAllEnemies(allEnemies, al, p, m, patrolDraws, n + 1)
         ELSE LET updated ==
                      [allEnemies EXCEPT
                           ![n] = UpdateEnemyAI(@, p, m.cells, m.width,
                                                FrameTime, patrolDraws[n])]
              IN  IF updated[n].canSeePlayer /\ al.alertTime < 0
                  THEN LET raised == RaiseAlert(n, updated, al)
                       IN  UpdateAllEnemies(raised.enemies, raised.alerts,
                                            p, m, patrolDraws, n + 1)
                  ELSE UpdateAllEnemies(updated, al, p, m, patrolDraws, n + 1)

\* main, "Update alert timer": an alert lasts 5 seconds.
UpdateAlertTimer(al, deltaTime) ==
    IF al.alertTime >= 0
    THEN IF al.alertTime + deltaTime > 5000
         THEN [al EXCEPT !.alertTime = -1]
         ELSE [al EXCEPT !.alertTime = @ + deltaTime]
    ELSE al

\* The draws (rand() % 20 - 10) the archer's personality is made of, and what
\* malloc may have left in the fields CreateEnemy does not set.
PersonalityDraws == {-10, 9}
Garbage == {-1, 0}

\* main, before the loop: the map, the player, the four enemies and no
\* alert.  For the zombie, the goblin and the guard no draw takes courage or
\* aggression across a threshold the code tests; they get the draw 0.
DemoInit ==
    /\ tiles = DemoMap
    /\ player = [x |-> DemoWidth \div 6, y |-> DemoHeight \div 2, health |-> 100]
    /\ \E c \in PersonalityDraws, a \in PersonalityDraws, g \in Garbage :
          enemies =
            << CreateEnemy((5 * DemoWidth) \div 6, DemoHeight \div 4,
                           "AI_TYPE_ZOMBIE", 0, 0, g),
               CreateEnemy((5 * DemoWidth) \div 6, (3 * DemoHeight) \div 4,
                           "AI_TYPE_GOBLIN", 0, 0, g),
               CreateEnemy(DemoWidth \div 2, DemoHeight \div 2,
                           "AI_TYPE_GUARD", 0, 0, g),
               CreateEnemy(DemoWidth \div 6, DemoHeight - 2,
                           "AI_TYPE_ARCHER", c, a, g) >>
    /\ alerts = [alertX |-> 0, alertY |-> 0, alertTime |-> -1, alerterId |-> -1]
    /\ frame = 0
    /\ lastCall = << >>
    /\ CallOff
    /\ DungeonOff
    /\ CollisionOff
    /\ CombatOff

\* One pass of main's while loop: the keys pressed, the enemies' update in
\* list order, the alert timer.
DemoFrame(dx, dy, patrolDraws) ==
    LET p == PlayerInput(player, enemies, tiles, dx, dy)
        updated == UpdateAllEnemies(enemies, alerts, p, tiles, patrolDraws, 1)
    IN  /\ frame < MaxFrames
        /\ frame' = frame + 1
        /\ player' = p
        /\ enemies' = updated.enemies
        /\ alerts' = UpdateAlertTimer(updated.alerts, FrameTime)
        /\ UNCHANGED <<tiles, callVars>>

\* rand() % 1000 < 5 is drawn for the enemies that are idle.
PatrolDraws ==
    {d \in [DOMAIN enemies -> BOOLEAN] :
        \A n \in DOMAIN enemies : d[n] => enemies[n].state = "AI_STATE_IDLE"}

DemoNext ==
    \E dx \in {-1, 0, 1}, dy \in {-1, 0, 1}, patrolDraws \in PatrolDraws :
        /\ DemoFrame(dx, dy, patrolDraws)
        /\ UNCHANGED <<dungeonVars, collisionVars, lastCall, combat>>

SpecDemo == DemoInit /\ [][DemoNext]_vars

(***************************************************************************)
(* Lesson 14: the state machine, called for enemies in any state           *)
(***************************************************************************)

\* AIState
AIStates ==
    {"AI_STATE_IDLE", "AI_STATE_PATROL", "AI_STATE_CHASE", "AI_STATE_FLEE",
     "AI_STATE_ATTACK", "AI_STATE_SEARCH", "AI_STATE_DEAD"}

\* The number of operations on the enemies that are followed.
MaxCalls == 2

\* The courage and the aggression of the first enemy, in hundredths, on
\* either side of the thresholds 0.3, 0.5 and 0.7 the code tests.
Courages == {10, 40, 60}
Aggressions == {10, 90}

\* Where the first enemy stands: in the corridor 3 and 5 tiles from the
\* player, and behind the wall.
SubjectCells ==
    { <<DemoWidth \div 2, DemoHeight \div 2>>,
      <<DemoWidth - 2, DemoHeight \div 2>>,
      <<DemoWidth - 2, DemoHeight - 2>> }

\* The functions are handed a list of two enemies: the first of any type met
\* by RaiseAlert, in any state, hurt or not, of any personality; the second a
\* zombie as CreateEnemy makes it, next to the player's corridor.
StatesInit ==
    /\ tiles = DemoMap
    /\ player = [x |-> DemoWidth \div 6, y |-> DemoHeight \div 2, health |-> 100]
    /\ \E c \in SubjectCells, type \in {"AI_TYPE_GOBLIN", "AI_TYPE_GUARD"},
          s \in AIStates, hurt \in BOOLEAN,
          courage \in Courages, aggression \in Aggressions :
          enemies =
            << [CreateEnemy(c[1], c[2], type, 0, 0, 0) EXCEPT
                    !.state = s,
                    !.health = IF hurt THEN 0 ELSE @,
                    !.courage = courage,
                    !.aggression = aggression],
               CreateEnemy(DemoWidth \div 6, 1, "AI_TYPE_ZOMBIE", 0, 0, 0) >>
    /\ alerts = [alertX |-> 0, alertY |-> 0, alertTime |-> -1, alerterId |-> -1]
    /\ frame = 0
    /\ lastCall = << >>
    /\ CallOff
    /\ DungeonOff
    /\ CollisionOff
    /\ CombatOff

\* A pass of main's loop.
StatesFrame(dx, dy, patrolDraws) ==
    /\ frame < MaxCalls
    /\ DemoFrame(dx, dy, patrolDraws)
    /\ lastCall' = [op |-> "main", n |-> 0, before |-> enemies,
                    player |-> player', deltaTime |-> FrameTime,
                    alerts |-> alerts]

\* UpdateEnemyAI called for enemy n, whatever its state.
CallUpdateEnemyAI(n, deltaTime, patrolDraw) ==
    /\ frame < MaxCalls
    /\ frame' = frame + 1
    /\ enemies' = [enemies EXCEPT
                       ![n] = UpdateEnemyAI(@, player, tiles.cells, tiles.width,
                                            deltaTime, patrolDraw)]
    /\ lastCall' = [op |-> "UpdateEnemyAI", n |-> n, before |-> enemies,
                    player |-> player, deltaTime |-> deltaTime,
                    alerts |-> alerts]
    /\ UNCHANGED <<tiles, player, alerts, callVars>>

\* RaiseAlert called with enemy n as the alerter.
CallRaiseAlert(n) ==
    LET raised == RaiseAlert(n, enemies, alerts)
    IN  /\ frame < MaxCalls
        /\ frame' = frame + 1
        /\ enemies' = raised.enemies
        /\ alerts' = raised.alerts
        /\ lastCall' = [op |-> "RaiseAlert", n |-> n, before |-> enemies,
                        player |-> player, deltaTime |-> 0,
                        alerts |-> alerts]
        /\ UNCHANGED <<tiles, player, callVars>>

\* deltaTime of a call: a quarter of a frame or a frame.
DeltaTimes == {FrameTime \div 4, FrameTime}

StatesNext ==
    \/ \E dx \in {-1, 0, 1}, dy \in {-1, 0, 1}, patrolDraws \in PatrolDraws :
          StatesFrame(dx, dy, patrolDraws) /\ UNCHANGED <<dungeonVars, collisionVars, combat>>
    \/ \E n \in DOMAIN enemies, deltaTime \in DeltaTimes, patrolDraw \in BOOLEAN :
          /\ patrolDraw => enemies[n].state = "AI_STATE_IDLE"
          /\ CallUpdateEnemyAI(n, deltaTime, patrolDraw)
          /\ UNCHANGED <<dungeonVars, collisionVars, combat>>
    \/ \E n \in DOMAIN enemies :
          CallRaiseAlert(n) /\ UNCHANGED <<dungeonVars, collisionVars, combat>>

SpecStates == StatesInit /\ [][StatesNext]_vars

\* An operation on the enemies has run.
Called == lastCall # << >>

\* The last operation was UpdateEnemyAI for enemy n.
Updated(n) == Called /\ lastCall.op = "UpdateEnemyAI" /\ lastCall.n = n

\* Whether enemy b sees the player of the last operation, and how far away
\* that player is.
SeesPlayer(b) ==
    CanSeePosition(b, lastCall.player.x, lastCall.player.y, tiles.cells, tiles.width)
PlayerDistance(b) ==
    ManhattanDistance(b.x, b.y, lastCall.player.x, lastCall.player.y)

\* C14: an enemy that was dead before an operation (a pass of main's loop, an
\* UpdateEnemyAI call for it or for another enemy, an alert raised by any
\* enemy) is dead after it.
C14_DeadIsTerminal ==
    Called =>
        \A n \in DOMAIN enemies :
            lastCall.before[n].state = "AI_STATE_DEAD"
                => enemies[n].state = "AI_STATE_DEAD"

\* C14 witness: a pass of main's loop in which the zombie raised the alert
\* within the hearing range of a dead guard.
C14_Witness ==
    /\ Called /\ lastCall.op = "main" /\ frame = 1
    /\ lastCall.before[1].state = "AI_STATE_DEAD"
    /\ lastCall.before[1].type = "AI_TYPE_GUARD"
    /\ alerts.alertTime >= 0 /\ alerts.alerterId = 2
    /\ ManhattanDistance(enemies[1].x, enemies[1].y, alerts.alertX, alerts.alertY)
          <= enemies[1].hearingRange

\* C15 (as stated): an enemy that is not dead and has no health left is dead
\* after the next update of its state machine.
C15_DeadOnNoHealth ==
    \A n \in DOMAIN enemies :
        (/\ Called /\ lastCall.op \in {"main", "UpdateEnemyAI"}
         /\ lastCall.op = "UpdateEnemyAI" => lastCall.n = n
         /\ lastCall.before[n].state # "AI_STATE_DEAD"
         /\ lastCall.before[n].health <= 0)
        => enemies[n].state = "AI_STATE_DEAD"

\* C16: an idle enemy that sees the player less than 5 tiles away and has
\* courage below 0.3 flees after its update, whatever its aggression.
C16_FleeFirst ==
    \A n \in DOMAIN enemies :
        (/\ Updated(n)
         /\ lastCall.before[n].state = "AI_STATE_IDLE"
         /\ SeesPlayer(lastCall.before[n])
         /\ PlayerDistance(lastCall.before[n]) < 5
         /\ lastCall.before[n].courage < 30)
        => enemies[n].state = "AI_STATE_FLEE"

\* C16 witness: an update of an idle enemy of courage 0.1 and aggression 0.9
\* that saw the player 3 tiles away.
C16_Witness ==
    /\ Updated(1)
    /\ lastCall.before[1].state = "AI_STATE_IDLE"
    /\ lastCall.before[1].courage = 10 /\ lastCall.before[1].aggression = 90
    /\ SeesPlayer(lastCall.before[1])
    /\ PlayerDistance(lastCall.before[1]) = 3
    /\ enemies[1].state = "AI_STATE_FLEE"

\* The condition under which an idle enemy flees.
FleeCondition(b) ==
    SeesPlayer(b) /\ PlayerDistance(b) < 5 /\ b.courage < 30

\* C17: an idle enemy that sees the player, has aggression above 0.7 and does
\* not meet the condition to flee chases after its update; an idle enemy that
\* does not see the player does not chase after its update.
C17_ChaseRule ==
    \A n \in DOMAIN enemies :
        (Updated(n) /\ lastCall.before[n].state = "AI_STATE_IDLE") =>
            /\ (/\ SeesPlayer(lastCall.before[n])
                /\ lastCall.before[n].aggression > 70
                /\ ~ FleeCondition(lastCall.before[n]))
               => enemies[n].state = "AI_STATE_CHASE"
            /\ ~ SeesPlayer(lastCall.before[n])
               => enemies[n].state # "AI_STATE_CHASE"

\* C17 witness: an update of an idle enemy of courage 0.1 and aggression 0.9
\* that saw the player 5 tiles away and chases.
C17_Witness ==
    /\ Updated(1)
    /\ lastCall.before[1].state = "AI_STATE_IDLE"
    /\ lastCall.before[1].courage = 10 /\ lastCall.before[1].aggression = 90
    /\ SeesPlayer(lastCall.before[1])
    /\ PlayerDistance(lastCall.before[1]) = 5
    /\ enemies[1].state = "AI_STATE_CHASE"

\* C18: over an update (on its own or in a pass of main's loop) a chasing
\* enemy ends in ATTACK exactly when the player is at distance 1 or less, in
\* SEARCH exactly when it does not see the player, and in CHASE otherwise.
C18_ChaseExits ==
    \A n \in DOMAIN enemies :
        (/\ Called /\ lastCall.op \in {"main", "UpdateEnemyAI"}
         /\ lastCall.op = "UpdateEnemyAI" => lastCall.n = n
         /\ lastCall.before[n].state = "AI_STATE_CHASE")
        => /\ enemies[n].state
                 \in {"AI_STATE_CHASE", "AI_STATE_ATTACK", "AI_STATE_SEARCH"}
           /\ enemies[n].state = "AI_STATE_ATTACK"
                 <=> PlayerDistance(lastCall.before[n]) <= 1
           /\ enemies[n].state = "AI_STATE_SEARCH"
                 <=> ~ SeesPlayer(lastCall.before[n])

\* C18 witness: a pass of main's loop, not the first, after which a chasing
\* enemy attacks the player next to it.
C18_Witness ==
    /\ Called /\ lastCall.op = "main" /\ frame = 2
    /\ lastCall.before[1].state = "AI_STATE_CHASE"
    /\ enemies[1].state = "AI_STATE_ATTACK"
    /\ ManhattanDistance(enemies[1].x, enemies[1].y, player.x, player.y) = 1

C24_LastSeen ==
    \A n \in DOMAIN enemies :
        Updated(n) =>
            IF SeesPlayer(lastCall.before[n])
            THEN /\ enemies[n].canSeePlayer
                 /\ enemies[n].lastSeenPlayerX = lastCall.player.x
                 /\ enemies[n].lastSeenPlayerY = lastCall.player.y
            ELSE /\ ~ enemies[n].canSeePlayer
                 /\ enemies[n].lastSeenPlayerX = lastCall.before[n].lastSeenPlayerX
                 /\ enemies[n].lastSeenPlayerY = lastCall.before[n].lastSeenPlayerY

\* C24 witness: an update in which an enemy that did not see the player
\* comes to see it, after the player has moved, and takes the player's
\* position for the one it held.
C24_Witness ==
    /\ Updated(1) /\ frame = 2
    /\ ~ lastCall.before[1].canSeePlayer
    /\ SeesPlayer(lastCall.before[1])
    /\ enemies[1].canSeePlayer
    /\ <<player.x, player.y>> # <<DemoWidth \div 6, DemoHeight \div 2>>
    /\ <<enemies[1].lastSeenPlayerX, enemies[1].lastSeenPlayerY>>
          = <<player.x, player.y>>
    /\ <<lastCall.before[1].lastSeenPlayerX, lastCall.before[1].lastSeenPlayerY>>
          # <<player.x, player.y>>

\* Whether the last operation was RaiseAlert, and whether enemy n, as it was
\* before that call, is within its own hearing range of the alerter.
Alerted == Called /\ lastCall.op = "RaiseAlert"
InEarshot(n) ==
    ManhattanDistance(lastCall.before[n].x, lastCall.before[n].y,
                      lastCall.before[lastCall.n].x, lastCall.before[lastCall.n].y)
        <= lastCall.before[n].hearingRange

\* C25: hearing is a matter of distance and hearing range only.  An idle
\* enemy that reacts to alerts (a guard, or an enemy of courage below 0.5)
\* leaves IDLE on an alert of another enemy exactly when its Manhattan
\* distance to the alerter is at most its hearingRange, whatever tiles lie
\* between the two.
C25_HearsByDistance ==
    Alerted =>
        \A n \in DOMAIN enemies :
            (/\ n # lastCall.n
             /\ lastCall.before[n].state = "AI_STATE_IDLE"
             /\ \/ lastCall.before[n].type = "AI_TYPE_GUARD"
                \/ lastCall.before[n].courage < 50)
            => (enemies[n].state # "AI_STATE_IDLE" <=> InEarshot(n))

\* C25 witness: an idle guard in earshot of the alerting zombie, with a wall
\* on the line between them, has heard the alert.
C25_Witness ==
    /\ Alerted /\ lastCall.n = 2
    /\ lastCall.before[1].state = "AI_STATE_IDLE"
    /\ lastCall.before[1].type = "AI_TYPE_GUARD"
    /\ InEarshot(1)
    /\ ManhattanDistance(lastCall.before[1].x, lastCall.before[1].y,
                         lastCall.before[2].x, lastCall.before[2].y)
          <= lastCall.before[1].sightRange
    /\ ~ CanSeePosition(lastCall.before[1], lastCall.before[2].x,
                        lastCall.before[2].y, tiles.cells, tiles.width)
    /\ enemies[1].state = "AI_STATE_SEARCH"

\* C30: RaiseAlert changes only idle enemies other than the alerter that are
\* within their own hearingRange of it: such a guard goes to SEARCH with the
\* alert position (the alerter's position) as its last seen position, such an
\* enemy of another type with courage below 0.5 goes to FLEE and keeps its
\* last seen position; every other enemy is left as it was.
C30_AlertEffect ==
    Alerted =>
        LET before == lastCall.before
            alerter == before[lastCall.n]
        IN  /\ alerts = [alertX |-> alerter.x, alertY |-> alerter.y,
                         alertTime |-> 0, alerterId |-> lastCall.n]
            /\ \A n \in DOMAIN enemies :
                 LET heard == /\ n # lastCall.n
                              /\ before[n].state = "AI_STATE_IDLE"
                              /\ InEarshot(n)
                 IN  IF heard /\ before[n].type = "AI_TYPE_GUARD"
                     THEN enemies[n] =
                            [before[n] EXCEPT !.state = "AI_STATE_SEARCH",
                                              !.lastSeenPlayerX = alerter.x,
                                              !.lastSeenPlayerY = alerter.y]
                     ELSE IF heard /\ before[n].courage < 50
                          THEN enemies[n] =
                                 [before[n] EXCEPT !.state = "AI_STATE_FLEE"]
                          ELSE enemies[n] = before[n]

\* C30 witness: an alert of the zombie that sent an idle guard in earshot to
\* SEARCH and gave it the zombie's position, which it did not hold before.
C30_Witness ==
    /\ Alerted /\ lastCall.n = 2
    /\ lastCall.before[1].state = "AI_STATE_IDLE"
    /\ lastCall.before[1].type = "AI_TYPE_GUARD"
    /\ InEarshot(1)
    /\ enemies[1].state = "AI_STATE_SEARCH"
    /\ <<enemies[1].lastSeenPlayerX, enemies[1].lastSeenPlayerY>>
          = <<lastCall.before[2].x, lastCall.before[2].y>>
    /\ <<lastCall.before[1].lastSeenPlayerX, lastCall.before[1].lastSeenPlayerY>>
          # <<lastCall.before[2].x, lastCall.before[2].y>>

\* The last operation was a pass of main's loop; the enemies that were not
\* dead before it and see the player of that pass from where they stood.
Ticked == Called /\ lastCall.op = "main"
Seers ==
    {n \in DOMAIN enemies :
        /\ lastCall.before[n].state # "AI_STATE_DEAD"
        /\ SeesPlayer(lastCall.before[n])}

\* C27: in a pass of main's loop every enemy that is not dead is updated
\* once, in the order of the list, and a dead enemy is skipped.  A dead enemy
\* is left entirely as it was.  An enemy that is not dead has had its
\* perception of the player refreshed, and has had at most one chase step:
\* it stands where it was unless it was chasing, then at most one tile away,
\* with its movement timer at 0 or advanced by one deltaTime.  The order is
\* the list's: when no alert was running, the alert of the pass is raised
\* by the first enemy of the list that sees the player, from where it stands
\* after its update, and has aged by the one deltaTime of the pass; with no
\* such enemy the alert system is untouched.
C27_OncePerTickInOrder ==
    Ticked =>
        LET before == lastCall.before
        IN  /\ \A n \in DOMAIN enemies :
                 IF before[n].state = "AI_STATE_DEAD"
                 THEN enemies[n] = before[n]
                 ELSE /\ enemies[n].canSeePlayer = SeesPlayer(before[n])
                      /\ IF before[n].state = "AI_STATE_CHASE"
                         THEN /\ ManhattanDistance(enemies[n].x, enemies[n].y,
                                                   before[n].x, before[n].y) <= 1
                              /\ enemies[n].timeSinceMove
                                   \in {0, before[n].timeSinceMove + lastCall.deltaTime}
                         ELSE /\ enemies[n].x = before[n].x
                              /\ enemies[n].y = before[n].y
                              /\ enemies[n].timeSinceMove = before[n].timeSinceMove
            /\ lastCall.alerts.alertTime < 0 =>
                 IF Seers = {}
                 THEN alerts = lastCall.alerts
                 ELSE LET first == CHOOSE n \in Seers : \A k \in Seers : n <= k
                      IN  alerts = [alertX |-> enemies[first].x,
                                    alertY |-> enemies[first].y,
                                    alertTime |-> lastCall.deltaTime,
                                    alerterId |-> first]

\* C27 witness: the second of two passes of main's loop, in which the first
\* enemy was dead with the player in its line of sight and range and did
\* not perceive it, and the zombie behind it in the list was updated and
\* raised the alert.
C27_Witness ==
    /\ Ticked /\ frame = 2
    /\ lastCall.before[1].state = "AI_STATE_DEAD"
    /\ SeesPlayer(lastCall.before[1])
    /\ ~ enemies[1].canSeePlayer
    /\ enemies[1] = lastCall.before[1]
    /\ lastCall.before[2].state # "AI_STATE_DEAD"
    /\ enemies[2].canSeePlayer
    /\ alerts.alerterId = 2

\* The walk of the last CanSeePosition call on the map, and the walk of the
\* same call on a map without walls.
WalkOfCall ==
    LineTrace(LineStart(enemy.x, enemy.y, targetXY.x, targetXY.y),
              targetXY.x, targetXY.y, tiles.cells, tiles.width, << >>)
OpenWalkOfCall ==
    LineTrace(LineStart(enemy.x, enemy.y, targetXY.x, targetXY.y),
              targetXY.x, targetXY.y,
              [i \in DOMAIN tiles.cells |-> "."], tiles.width, << >>)
InBox(c) ==
    /\ Min(enemy.x, targetXY.x) <= c[1] /\ c[1] <= Max(enemy.x, targetXY.x)
    /\ Min(enemy.y, targetXY.y) <= c[2] /\ c[2] <= Max(enemy.y, targetXY.y)

\* C29: for an observer and a target on the map, within sight range of each
\* other, the line walk of CanSeePosition ends: at the target cell when no
\* wall stops it (and it is then the result TRUE), at the first wall it reads
\* otherwise (the result FALSE).  It makes at most max(dx, dy) reads, never
\* reads the target cell, and every cell it reads lies in the bounding box
\* of observer and target, hence on the map.
C29_WalkInBox ==
    (/\ Len(seen) >= 1
     /\ ManhattanDistance(enemy.x, enemy.y, targetXY.x, targetXY.y)
           <= enemy.sightRange)
    => LET walk == WalkOfCall
           open == OpenWalkOfCall
           longest == Max(Abs(targetXY.x - enemy.x), Abs(targetXY.y - enemy.y))
       IN  /\ open.clear /\ open.x = targetXY.x /\ open.y = targetXY.y
           /\ Len(open.reads) = longest
           /\ walk.clear = seen[1]
           /\ walk.clear => walk.reads = open.reads
           /\ ~ walk.clear =>
                 /\ Len(walk.reads) >= 1
                 /\ walk.reads = SubSeq(open.reads, 1, Len(walk.reads))
                 /\ TileAt(walk.reads[Len(walk.reads)]) = "#"
           /\ \A i \in 1..Len(open.reads) :
                 /\ InBox(open.reads[i])
                 /\ open.reads[i] \in GridCells
                 /\ open.reads[i] # <<targetXY.x, targetXY.y>>

\* C29 witness: a look along a line that is neither straight nor diagonal,
\* three or more tiles long, that no wall stops.
C29_Witness ==
    /\ Len(seen) >= 1 /\ seen[1] = TRUE
    /\ Abs(targetXY.x - enemy.x) >= 3
    /\ Abs(targetXY.y - enemy.y) >= 1
    /\ Abs(targetXY.x - enemy.x) # Abs(targetXY.y - enemy.y)
    /\ Len(WalkOfCall.reads) = Abs(targetXY.x - enemy.x)
    /\ \A i \in 1..Len(WalkOfCall.reads) : InBox(WalkOfCall.reads[i])

\* C2: after a frame no two agents stand on the same tile.
C2_NoSharedTile ==
    /\ \A n \in DOMAIN enemies :
          ~ (enemies[n].x = player.x /\ enemies[n].y = player.y)
    /\ \A n1 \in DOMAIN enemies, n2 \in DOMAIN enemies :
          n1 # n2 => ~ (enemies[n1].x = enemies[n2].x /\ enemies[n1].y = enemies[n2].y)

(***************************************************************************)
(* Lesson 16a: ApplyDamage                                                 *)
(***************************************************************************)

\* The hit points a combatant starts with and the damage of a hit: the
\* tests of the lesson use hp 5 and 10 and dmg 0, 3 and 20, the exercise
\* dmg = INT_MAX.
MaxHp == 10
MaxDamage == 20
Damages == 0 .. MaxDamage \cup {INT_MAX}

\* A damage rule without the clamp.
ApplyDamageNoClamp(hp, dmg) == hp - dmg

\* int ApplyDamage(int hp, int dmg)
ApplyDamage(hp, dmg) ==
    LET left == hp - dmg
    IN  IF left < 0 THEN 0 ELSE left

DamageInit ==
    /\ \E hp \in 0 .. MaxHp : combat = [hp |-> hp, calls |-> 0, was |-> hp, dmg |-> 0]
    /\ DungeonOff
    /\ CollisionOff
    /\ AIOff

\* hp = ApplyDamage(hp, dmg)
Hit(dmg) ==
    combat' = [hp |-> ApplyDamage(combat.hp, dmg), calls |-> 1,
               was |-> combat.hp, dmg |-> dmg]

DamageNext ==
    \E dmg \in Damages :
        Hit(dmg) /\ UNCHANGED <<dungeonVars, collisionVars, aiVars>>

SpecDamage == DamageInit /\ [][DamageNext]_vars

\* C26: for hp >= 0 and dmg >= 0, ApplyDamage returns hp - dmg when
\* dmg <= hp and 0 otherwise: zero damage leaves the health as it was and the
\* result is never negative.
C26_ApplyDamage ==
    (combat.calls > 0 /\ combat.was >= 0 /\ combat.dmg >= 0) =>
        /\ combat.hp = IF combat.dmg <= combat.was
                       THEN combat.was - combat.dmg
                       ELSE 0
        /\ combat.dmg = 0 => combat.hp = combat.was
        /\ combat.hp >= 0

\* C26 witness: the lethal hit of the lesson's test, ApplyDamage(5, 20) == 0.
C26_Witness ==
    /\ combat.calls > 0
    /\ combat.was = MaxHp \div 2 /\ combat.dmg > combat.was /\ combat.dmg < INT_MAX
    /\ combat.hp = 0

====
